---- MODULE Spec2Model ----
(***************************************************************************)
(* eliprompt: block producers (src/block/*.rs), styles (src/style.rs),     *)
(* the environment (src/env.rs) and the prompt generation of the command   *)
(* line program (src/main.rs: a worker thread evaluates the producers, the *)
(* main thread waits for it with a timeout and falls back).                *)
(***************************************************************************)
EXTENDS Integers, Sequences, FiniteSets, TLC

VARIABLES
    \* evaluation of one producer tree against one environment
    producer,       \* the BlockProducer under evaluation
    environment,    \* the Environment it is evaluated against
    blocks,         \* Vec<Block> returned by BlockProducer::produce
    visited,        \* paths of the producers whose produce ran, in call order
    pc,             \* "init" before the call of produce, "produced" after
    \* one run of `eliprompt prompt` (src/main.rs)
    args,           \* the command line arguments of the prompt subcommand
    os,             \* what the process finds around it: current directory,
                    \* environment variables, configuration files
    main_pc,        \* where the main thread is
    worker_pc,      \* where the worker thread is
    sender_dropped, \* the channel's sender was dropped (receiver disconnected)
    worker_value,   \* what join gives for the worker thread: Ok of the
                    \* value its closure returned, or Err when it panicked
    result,         \* what print_prompt returned
    run_result,     \* the Err print_or_fallback returned, which `?` returns
                    \* from process_prompt and from run
    joined,         \* the main thread called join on the worker
    buffer,         \* the Vec<u8> the shell writes into: the blocks painted
    fallback,       \* print_fallback_prompt: the Environment it used and
                    \* the Result it returned, once it ran
    stdout,         \* what the process wrote to its standard output
    stderr,         \* the lines the process wrote to its standard error
    exit_status,    \* the exit status of the process, once it exited
    \* calls of Environment::repo on one Environment, from two threads
    repo_cell,      \* the OnceCell<Option<Repository>>: empty, or its value
    repo_initializer, \* the threads that run the closure of get_or_init
    discoveries,    \* how many times Repository::discover was called
    call_pc,        \* where each thread is in its call of repo
    returned,       \* what the calls of repo returned to each thread, in order
    disk,           \* what Repository::discover finds at the working directory
    \* parsing, printing and comparing colours (src/color.rs)
    color_input,    \* the String given to Color::try_from
    color_self,     \* a Color: the one printed, the left side of ==
    color_other,    \* a Color: the right side of ==
    color_string,   \* what to_string gave for color_self, once printed
    color_result,   \* the Result of the last try_from, once it ran
    color_eq,       \* what color_self == color_other gave, once compared
    color_pc,       \* which of these operations ran
    \* the shell that runs the hooks of install_zsh and `eliprompt store`
    ELIPROMPT_STATE, \* the shell variable that holds the encoded State
    clock,          \* the monotonic clock, in ticks of half a second
    store_call,     \* the last call of process_store: its flag, the duration
                    \* it found in the state, the clock it read, its Result
    PROMPT          \* the Result of make_prompt for the last prompt printed

eval_vars == <<producer, environment, blocks, visited, pc>>

run_vars == <<args, os, main_pc, worker_pc, sender_dropped, worker_value, result,
              run_result, joined, buffer, fallback, stdout, stderr, exit_status>>

repo_vars == <<repo_cell, repo_initializer, discoveries, call_pc, returned, disk>>

color_vars == <<color_input, color_self, color_other, color_string, color_result, color_eq, color_pc>>

store_vars == <<ELIPROMPT_STATE, clock, store_call, PROMPT>>

vars == <<eval_vars, run_vars, repo_vars, color_vars, store_vars>>

(***************************************************************************)
(* Bounds of the model.                                                    *)
(***************************************************************************)
\* largest number of producers (nodes) in an evaluated producer tree
MaxNodes == 4

\* largest number of calls of Environment::repo by one thread
MaxCalls == 2

\* the ticks of half a second the monotonic clock counts before it stops
MaxTicks == 2

(***************************************************************************)
(* Option, Color, Style (src/style.rs).                                    *)
(***************************************************************************)
None == "None"

\* the named colours the built-in prompts use
Colors == {"crimson", "dodgerblue", "teal", "black"}

OptionColor == Colors \cup {None}

Style == [foreground : OptionColor, background : OptionColor]

\* Style::default(): both channels absent
Style_default == [foreground |-> None, background |-> None]

\* Style::fg(c)
Style_fg(c) == [foreground |-> c, background |-> None]

\* Option::or_else
or_else(own, other) == IF own # None THEN own ELSE other

\* a mutant of Style_or: the default replaces the style wholesale when it
\* has a colour in the channel
Style_or_replace(self, default) ==
    [foreground |-> or_else(default.foreground, self.foreground),
     background |-> or_else(default.background, self.background)]

\* a mutant of Style_or: the background is the default's when it has one
Style_or_background(self, default) ==
    [foreground |-> or_else(self.foreground, default.foreground),
     background |-> or_else(default.background, self.background)]

\* Style::or
Style_or(self, default) ==
    [foreground |-> or_else(self.foreground, default.foreground),
     background |-> or_else(self.background, default.background)]

(***************************************************************************)
(* Option of values other than colours, and Result.                        *)
(***************************************************************************)
\* Option::Some(x) and Option::None as a list of at most one value
Some(x) == <<x>>

Absent == <<>>

\* Result::Ok(value) and Result::Err(error); an error is the list of its
\* Display message and the messages of its chain of sources
Ok(value) == [ok |-> TRUE, value |-> value]

Err(error) == [ok |-> FALSE, error |-> error]

(***************************************************************************)
(* Block (src/block.rs).                                                   *)
(***************************************************************************)
\* Block::new
Block_new(text) == [text |-> text, style |-> Style_default]

\* Block::with_style
Block_with_style(block, style) == [block EXCEPT !.style = style]

(***************************************************************************)
(* i32::to_string, used by ExitCode.                                       *)
(***************************************************************************)
Digit(d) ==
    CASE d = 0 -> "0" [] d = 1 -> "1" [] d = 2 -> "2" [] d = 3 -> "3"
      [] d = 4 -> "4" [] d = 5 -> "5" [] d = 6 -> "6" [] d = 7 -> "7"
      [] d = 8 -> "8" [] d = 9 -> "9"

RECURSIVE NatToString(_)
NatToString(n) ==
    IF n < 10 THEN Digit(n) ELSE NatToString(n \div 10) \o Digit(n % 10)

to_string(code) ==
    IF code < 0 THEN "-" \o NatToString(-code) ELSE NatToString(code)

(***************************************************************************)
(* std::time::Duration, as Elapsed uses it (src/block/elapsed.rs): whole   *)
(* seconds and the nanoseconds of the fraction.                            *)
(***************************************************************************)
Duration_new(secs, nanos) == [secs |-> secs, nanos |-> nanos]

Duration_from_secs(secs) == Duration_new(secs, 0)

\* Duration::from_millis(ms)
Duration_from_millis(ms) == Duration_new(ms \div 1000, (ms % 1000) * 1000000)

\* Duration::subsec_millis: the fraction in whole milliseconds
subsec_millis(d) == d.nanos \div 1000000

\* Duration + Duration
Duration_add(a, b) ==
    Duration_new(a.secs + b.secs + (a.nanos + b.nanos) \div 1000000000,
                 (a.nanos + b.nanos) % 1000000000)

\* Duration >= Duration (PartialOrd: seconds first, then nanoseconds)
Duration_ge(a, b) == a.secs > b.secs \/ (a.secs = b.secs /\ a.nanos >= b.nanos)

\* Ord::max of two Durations
Duration_max(a, b) == IF Duration_ge(b, a) THEN b ELSE a

\* Duration - Duration, for a >= b
Duration_sub(a, b) ==
    IF a.nanos >= b.nanos THEN Duration_new(a.secs - b.secs, a.nanos - b.nanos)
    ELSE Duration_new(a.secs - b.secs - 1, a.nanos + 1000000000 - b.nanos)

\* humantime::format_duration: item_plural writes "<n><name>" and an "s"
\* when n > 1, item writes "<n><name>"; nothing is written for n = 0, and
\* the items written are separated by one space
item_plural(started, name, value) ==
    IF value = 0 THEN started
    ELSE (IF started = "" THEN "" ELSE started \o " ")
         \o NatToString(value) \o name \o (IF value > 1 THEN "s" ELSE "")

item(started, name, value) ==
    IF value = 0 THEN started
    ELSE (IF started = "" THEN "" ELSE started \o " ") \o NatToString(value) \o name

\* humantime::format_duration(d).to_string()
format_duration(d) ==
    IF d.secs = 0 /\ d.nanos = 0 THEN "0s"
    ELSE LET years == d.secs \div 31557600
             ydays == d.secs % 31557600
             months == ydays \div 2630016
             mdays == ydays % 2630016
             days == mdays \div 86400
             day_secs == mdays % 86400
             hours == day_secs \div 3600
             minutes == (day_secs % 3600) \div 60
             seconds == day_secs % 60
             millis == d.nanos \div 1000000
             micros == (d.nanos \div 1000) % 1000
             nanosec == d.nanos % 1000
             s1 == item_plural("", "year", years)
             s2 == item_plural(s1, "month", months)
             s3 == item_plural(s2, "day", days)
             s4 == item(s3, "h", hours)
             s5 == item(s4, "m", minutes)
             s6 == item(s5, "s", seconds)
             s7 == item(s6, "ms", millis)
             s8 == item(s7, "us", micros)
         IN  item(s8, "ns", nanosec)

(***************************************************************************)
(* Environment (src/env.rs).                                               *)
(***************************************************************************)
\* Environment::new(working_dir): exit code 0, no duration
Environment_new(working_dir) ==
    [working_dir |-> working_dir, prev_exit_code |-> 0,
     prev_cmd_duration |-> Absent, force_alternative_prompt |-> FALSE]

\* err.rs Error::GettingPwdFailed(io::Error)
Error_GettingPwdFailed ==
    <<"Failed to get current working directory", "No such file or directory">>

\* Environment::current(): fails when the current directory cannot be read
Environment_current(system) ==
    IF system.cwd = Absent THEN Err(Error_GettingPwdFailed)
    ELSE Ok(Environment_new(system.cwd[1]))

\* Environment::with_prev_exit_code
with_prev_exit_code(env, code) == [env EXCEPT !.prev_exit_code = code]

\* Environment::with_prev_cmd_duration
with_prev_cmd_duration(env, d) == [env EXCEPT !.prev_cmd_duration = Some(d)]

\* Environment::alternative_prompt_is_used
alternative_prompt_is_used(env, system) ==
    \/ env.force_alternative_prompt
    \/ system.ELIPROMPT_ALTERNATIVE_PROMPT
    \/ system.TERM = "linux"

\* what is on the disk at a directory, for Repository::discover: a
\* repository (with what its HEAD is, the path of its git directory and
\* whether it is bare), nothing, or something git2 cannot read.  /repo holds
\* a repository, /fresh one with no commit, /bare.git a bare one, and
\* /linked is a linked working tree of the repository of /repo
Disk(working_dir) ==
    CASE working_dir \in {"/repo", "/repo/src", "/repo/src/block"} ->
            [found |-> "Repository", head |-> Ok(Some("main")),
             path |-> "/repo/.git/", bare |-> FALSE]
      [] working_dir = "/fresh" ->
            [found |-> "Repository", head |-> Err([code |-> "UnbornBranch"]),
             path |-> "/fresh/.git/", bare |-> FALSE]
      [] working_dir = "/bare.git" ->
            [found |-> "Repository", head |-> Ok(Some("main")),
             path |-> "/bare.git/", bare |-> TRUE]
      [] working_dir = "/linked" ->
            [found |-> "Repository", head |-> Ok(Some("topic")),
             path |-> "/repo/.git/worktrees/linked/", bare |-> FALSE]
      [] working_dir = "/broken" -> [found |-> "Error"]
      [] OTHER -> [found |-> "NotFound"]

\* git2::Repository::discover on what the disk holds: the repository, or a
\* git2::Error whose code is NotFound or another one
Repository_discover(on_disk) ==
    CASE on_disk.found = "Repository" ->
            Ok([head |-> on_disk.head, path |-> on_disk.path,
                is_bare |-> on_disk.bare])
      [] on_disk.found = "NotFound" -> Err([code |-> "NotFound"])
      [] OTHER -> Err([code |-> "Generic"])

\* the closure of Environment::repo, lines 75-82: Some(repo) on Ok; None on
\* NotFound; any other error is logged with tracing::error! and gives None
repo_init(discovered) ==
    IF discovered.ok THEN Some(discovered.value) ELSE Absent

\* Environment::repo during one evaluation: the first call discovers the
\* repository at the working directory, the next ones get the same value
Environment_repo(env) == repo_init(Repository_discover(Disk(env.working_dir)))

(***************************************************************************)
(* Colours (src/color.rs).  A Color is the record of its RGB8 value and    *)
(* its Option of a name.  (The styles above only carry colours around and  *)
(* stand for each by a name.)                                              *)
(***************************************************************************)
\* RGB8::new
RGB8(r, g, b) == [r |-> r, g |-> g, b |-> b]

\* From<RGB8> for Color: no name
Color_from(rgb) == [inner |-> rgb, name |-> Absent]

\* Color::new
Color_new(r, g, b) == Color_from(RGB8(r, g, b))

\* Color::named
Color_named(s, value) == [inner |-> value, name |-> Some(s)]

\* palette::named::from_str: the CSS colours, by their lowercase names
palette_named_from_str(s) ==
    CASE s = "aqua" -> Some(RGB8(0, 255, 255))
      [] s = "black" -> Some(RGB8(0, 0, 0))
      [] s = "crimson" -> Some(RGB8(220, 20, 60))
      [] s = "cyan" -> Some(RGB8(0, 255, 255))
      [] s = "dodgerblue" -> Some(RGB8(30, 144, 255))
      [] s = "navy" -> Some(RGB8(0, 0, 128))
      [] s = "red" -> Some(RGB8(255, 0, 0))
      [] s = "teal" -> Some(RGB8(0, 128, 128))
      [] s = "white" -> Some(RGB8(255, 255, 255))
      [] OTHER -> Absent

\* the constants of color.rs
BLACK == Color_named("black", palette_named_from_str("black")[1])

CRIMSON == Color_named("crimson", palette_named_from_str("crimson")[1])

CYAN == Color_named("cyan", palette_named_from_str("cyan")[1])

DODGERBLUE == Color_named("dodgerblue", palette_named_from_str("dodgerblue")[1])

NAVY == Color_named("navy", palette_named_from_str("navy")[1])

TEAL == Color_named("teal", palette_named_from_str("teal")[1])

WHITE == Color_named("white", palette_named_from_str("white")[1])

\* the first number no 24 bits can hold
Bit24 == 16777216

\* the value of a decimal digit, -1 for another character
digit_value(ch) ==
    CASE ch = "0" -> 0 [] ch = "1" -> 1 [] ch = "2" -> 2 [] ch = "3" -> 3
      [] ch = "4" -> 4 [] ch = "5" -> 5 [] ch = "6" -> 6 [] ch = "7" -> 7
      [] ch = "8" -> 8 [] ch = "9" -> 9 [] OTHER -> -1

RECURSIVE parse_digits(_, _, _)

\* the digits of str from position i on, acc being the value read so far; a
\* value of Bit24 or more is kept as Bit24, which stands for every number
\* with a bit set above the low 24 and for the overflow of u32
parse_digits(str, i, acc) ==
    IF i > Len(str) THEN Ok(acc)
    ELSE LET d == digit_value(SubSeq(str, i, i))
         IN  IF d < 0 THEN Err("InvalidDigit")
             ELSE parse_digits(str, i + 1,
                               IF acc * 10 + d >= Bit24 THEN Bit24 ELSE acc * 10 + d)

\* str::parse::<u32>: decimal digits after an optional "+"
parse_u32(str) ==
    IF str = "" THEN Err("Empty")
    ELSE IF SubSeq(str, 1, 1) = "+"
         THEN (IF Len(str) = 1 THEN Err("InvalidDigit") ELSE parse_digits(str, 2, 0))
    ELSE parse_digits(str, 1, 0)

\* InvalidColor(String)
InvalidColor(s) == <<"Invalid color", s>>

\* the value of a hexadecimal digit, -1 for another character
hex_value(ch) ==
    IF digit_value(ch) >= 0 THEN digit_value(ch)
    ELSE CASE ch \in {"a", "A"} -> 10 [] ch \in {"b", "B"} -> 11
           [] ch \in {"c", "C"} -> 12 [] ch \in {"d", "D"} -> 13
           [] ch \in {"e", "E"} -> 14 [] ch \in {"f", "F"} -> 15
           [] OTHER -> -1

\* TryFrom<String> for Color, FromStr: after '#' the text is parsed as a
\* u32 (str::parse, in base ten) whose three low bytes are the colour and
\* whose other bits must be 0; any other text is looked up in the palette
Color_try_from(s) ==
    IF Len(s) >= 1 /\ SubSeq(s, 1, 1) = "#"
    THEN LET n == parse_u32(SubSeq(s, 2, Len(s)))
         IN  IF ~n.ok THEN Err(InvalidColor(s))
             ELSE IF n.value >= Bit24 THEN Err(InvalidColor(s))
             ELSE Ok([inner |-> RGB8((n.value \div 65536) % 256,
                                     (n.value \div 256) % 256, n.value % 256),
                      name |-> Absent])
    ELSE LET c == palette_named_from_str(s)
         IN  IF c = Absent THEN Err(InvalidColor(s))
             ELSE Ok([inner |-> c[1], name |-> Some(s)])

\* {:02x}: a byte as two lowercase hexadecimal digits
hex2(byte) ==
    LET digits == "0123456789abcdef"
    IN  SubSeq(digits, (byte \div 16) + 1, (byte \div 16) + 1)
        \o SubSeq(digits, (byte % 16) + 1, (byte % 16) + 1)

\* Display for Color (and Serialize, which writes to_string): the name of a
\* colour that has one, else '#' and the three bytes in hexadecimal
Color_to_string(self) ==
    IF self.name # Absent THEN self.name[1]
    ELSE "#" \o hex2(self.inner.r) \o hex2(self.inner.g) \o hex2(self.inner.b)

\* an equality that looks at the RGB value only
Color_eq_inner(self, other) == self.inner = other.inner

\* PartialEq for Color, derived: every field is compared
Color_eq(self, other) == self.inner = other.inner /\ self.name = other.name

(***************************************************************************)
(* Paths (std::path).  A path is its text; its components are the root     *)
(* "/" of an absolute path followed by the names between the separators,   *)
(* repeated and trailing separators giving no component.                   *)
(***************************************************************************)
RECURSIVE split(_, _, _)

\* the names of the text s from position i on, cur being the name read so far
split(s, i, cur) ==
    IF i > Len(s) THEN (IF cur = "" THEN <<>> ELSE <<cur>>)
    ELSE IF SubSeq(s, i, i) = "/"
         THEN (IF cur = "" THEN <<>> ELSE <<cur>>) \o split(s, i + 1, "")
         ELSE split(s, i + 1, cur \o SubSeq(s, i, i))

\* Path::components
components(path) ==
    (IF Len(path) >= 1 /\ SubSeq(path, 1, 1) = "/" THEN <<"/">> ELSE <<>>)
    \o split(path, 1, "")

RECURSIVE join(_)

\* Components::as_path of components that follow a prefix: the names with
\* one separator between them
join(names) ==
    IF names = <<>> THEN ""
    ELSE IF Len(names) = 1 THEN names[1]
    ELSE names[1] \o "/" \o join(Tail(names))

\* a prefix test on the text of the paths, not on their components
strip_prefix_text(path, base) ==
    IF Len(base) <= Len(path) /\ SubSeq(path, 1, Len(base)) = base
    THEN Ok(join(split(SubSeq(path, Len(base) + 1, Len(path)), 1, "")))
    ELSE Err("StripPrefixError")

\* Path::strip_prefix: the components of base are the first components of
\* path, and the result is the path of the components that follow
strip_prefix(path, base) ==
    LET cs == components(path)
        bs == components(base)
    IN  IF Len(bs) <= Len(cs) /\ SubSeq(cs, 1, Len(bs)) = bs
        THEN Ok(join(SubSeq(cs, Len(bs) + 1, Len(cs))))
        ELSE Err("StripPrefixError")

\* Path::parent: the path without its last component, None for a root or
\* an empty path
parent(path) ==
    LET cs == components(path)
    IN  IF cs = <<>> \/ cs = <<"/">> THEN Absent
        ELSE IF cs[1] = "/" THEN Some("/" \o join(SubSeq(cs, 2, Len(cs) - 1)))
        ELSE Some(join(SubSeq(cs, 1, Len(cs) - 1)))

\* PathBuf::push of a relative path: a separator is added unless the buffer
\* ends with one
push(buf, path) ==
    IF buf = "" \/ SubSeq(buf, Len(buf), Len(buf)) = "/" THEN buf \o path
    ELSE buf \o "/" \o path

\* dirs::home_dir(): the home directory of the user of the process, if any
home_dir == os.HOME

\* whoami::username(): the name of the user of the process
whoami_username == os.USER

\* whoami::hostname(): the name of the machine
whoami_hostname == os.HOSTNAME

\* Environment::working_dir, as pwd.rs and git_path.rs read it: an Option
\* that Environment::new always fills
Environment_working_dir(env) == Some(env.working_dir)

(***************************************************************************)
(* The producers.  A producer is a record whose kind is the variant of     *)
(* BlockProducer and whose other fields are the fields of the variant.     *)
(* produce returns [blocks, visited]: the Vec<Block> of the source and,    *)
(* to observe which producers were evaluated, the paths (child indices     *)
(* from the root) of the producers whose produce was called, in call       *)
(* order.                                                                  *)
(***************************************************************************)
Text(contents, style) == [kind |-> "Text", style |-> style, contents |-> contents]

ExitCode(prefix, style) == [kind |-> "ExitCode", style |-> style, prefix |-> prefix]

ExitStatusSymbol(contents, style, error_style) ==
    [kind |-> "ExitStatusSymbol", style |-> style, error_style |-> error_style,
     contents |-> contents]

\* Elapsed { style, prefix, threshold }
Elapsed(prefix, style, threshold) ==
    [kind |-> "Elapsed", style |-> style, prefix |-> prefix, threshold |-> threshold]

\* elapsed.rs default_threshold
default_threshold == Duration_from_secs(2)

\* GitHead { style, prefix }
GitHead(prefix, style) == [kind |-> "GitHead", style |-> style, prefix |-> prefix]

\* GitPath { style, prefix }
GitPath(prefix, style) == [kind |-> "GitPath", style |-> style, prefix |-> prefix]

\* Username { style, prefix }
Username(prefix, style) == [kind |-> "Username", style |-> style, prefix |-> prefix]

\* username.rs default_prefix
Username_default_prefix == ""

\* Hostname { style, prefix }
Hostname(prefix, style) == [kind |-> "Hostname", style |-> style, prefix |-> prefix]

\* hostname.rs default_prefix
Hostname_default_prefix == ""

\* WorkingDirectory { style, home_as_tilde, prefix }
WorkingDirectory(prefix, style, home_as_tilde) ==
    [kind |-> "WorkingDirectory", style |-> style,
     home_as_tilde |-> home_as_tilde, prefix |-> prefix]

Space == [kind |-> "Space"]

Newline == [kind |-> "Newline"]

Or(producers) == [kind |-> "Or", producers |-> producers]

Sequence(producers) == [kind |-> "Sequence", producers |-> producers]

Separated(producers, separator, separator_style) ==
    [kind |-> "Separated", separator_style |-> separator_style,
     separator |-> separator, producers |-> producers]

Styled(p, style) == [kind |-> "Styled", style |-> style, producer |-> p]

\* separated.rs default_separator
default_separator == " | "

\* Text::produce
Text_produce(self, env) ==
    <<Block_with_style(Block_new(self.contents), self.style)>>

\* a mutant of ExitCode_produce: only a positive code counts as a failure
ExitCode_produce_positive(self, env) ==
    IF env.prev_exit_code <= 0 THEN <<>>
    ELSE <<Block_with_style(Block_new(self.prefix), self.style),
           Block_with_style(Block_new(to_string(env.prev_exit_code)), self.style)>>

\* ExitCode::produce
ExitCode_produce(self, env) ==
    IF env.prev_exit_code = 0 THEN <<>>
    ELSE <<Block_with_style(Block_new(self.prefix), self.style),
           Block_with_style(Block_new(to_string(env.prev_exit_code)), self.style)>>

\* a mutant of ExitStatusSymbol_produce: the error style is never used
ExitStatusSymbol_produce_plain(self, env) ==
    IF self.contents = "" THEN <<>>
    ELSE <<Block_with_style(Block_new(self.contents), self.style)>>

\* ExitStatusSymbol::produce
ExitStatusSymbol_produce(self, env) ==
    LET style == IF env.prev_exit_code = 0 THEN self.style ELSE self.error_style
    IN  IF self.contents = "" THEN <<>>
        ELSE <<Block_with_style(Block_new(self.contents), style)>>

\* a mutant of Elapsed_produce: the duration is formatted as it is, with
\* its microseconds and nanoseconds
Elapsed_produce_untruncated(self, env) ==
    IF env.prev_cmd_duration = Absent THEN <<>>
    ELSE LET elapsed == env.prev_cmd_duration[1]
         IN  IF Duration_ge(elapsed, self.threshold)
             THEN <<Block_with_style(Block_new(self.prefix), self.style),
                    Block_with_style(Block_new(format_duration(elapsed)), self.style)>>
             ELSE <<>>

\* Elapsed::produce: nothing when the duration is unknown or under the
\* threshold; otherwise the prefix and the duration cut to whole milliseconds
Elapsed_produce(self, env) ==
    IF env.prev_cmd_duration = Absent THEN <<>>
    ELSE LET elapsed == env.prev_cmd_duration[1]
         IN  IF Duration_ge(elapsed, self.threshold)
             THEN LET cut == Duration_add(Duration_from_secs(elapsed.secs),
                                          Duration_from_millis(subsec_millis(elapsed)))
                  IN  <<Block_with_style(Block_new(self.prefix), self.style),
                        Block_with_style(Block_new(format_duration(cut)), self.style)>>
             ELSE <<>>

\* GitHead::produce: nothing without a repository; the branch HEAD names,
\* or "master" when the branch is unborn; nothing on another error of head()
\* or when HEAD has no shorthand
GitHead_produce(self, env) ==
    LET repo == Environment_repo(env)
    IN  IF repo = Absent THEN <<>>
        ELSE LET head == repo[1].head
                 name == IF head.ok THEN head.value
                         ELSE IF head.error.code = "UnbornBranch" THEN Some("master")
                         ELSE Absent
             IN  IF name = Absent THEN <<>>
                 ELSE <<Block_with_style(Block_new(self.prefix), self.style),
                        Block_with_style(Block_new(name[1]), self.style)>>

\* GitPath::produce: nothing without a repository or in a bare one; else the
\* working directory without the parent of the parent of the git directory,
\* and nothing when one of the parents or that prefix does not exist
GitPath_produce(self, env) ==
    LET repo == Environment_repo(env)
    IN  IF repo = Absent THEN <<>>
        ELSE IF repo[1].is_bare THEN <<>>
        ELSE LET p == parent(repo[1].path)
                 base == IF p = Absent THEN Absent ELSE parent(p[1])
                 wd == Environment_working_dir(env)
                 stripped == IF base = Absent \/ wd = Absent THEN Absent
                             ELSE LET r == strip_prefix(wd[1], base[1])
                                  IN  IF r.ok THEN Some(r.value) ELSE Absent
             IN  IF stripped = Absent THEN <<>>
                 ELSE <<Block_with_style(Block_new(self.prefix), self.style),
                        Block_with_style(Block_new(stripped[1]), self.style)>>

\* WorkingDirectory::produce: the prefix and the working directory, the home
\* directory shown as "~" when home_as_tilde is set
WorkingDirectory_produce(self, env) ==
    LET wd == Environment_working_dir(env)
        stripped == IF home_dir = Absent THEN Absent
                    ELSE LET r == strip_prefix(wd[1], home_dir[1])
                         IN  IF r.ok THEN Some(r.value) ELSE Absent
        pwd == IF wd # Absent /\ self.home_as_tilde
               THEN (IF stripped # Absent /\ stripped[1] = "" THEN "~"
                     ELSE IF stripped # Absent THEN push("~", stripped[1])
                     ELSE wd[1])
               ELSE IF wd # Absent THEN wd[1]
               ELSE "<NONE>"
    IN  <<Block_with_style(Block_new(self.prefix), self.style),
          Block_with_style(Block_new(pwd), self.style)>>

\* Username::produce: the prefix and the name of the user, always
Username_produce(self, env) ==
    <<Block_with_style(Block_new(self.prefix), self.style),
      Block_with_style(Block_new(whoami_username), self.style)>>

\* Hostname::produce: the prefix and the name of the machine, always
Hostname_produce(self, env) ==
    <<Block_with_style(Block_new(self.prefix), self.style),
      Block_with_style(Block_new(whoami_hostname), self.style)>>

\* Space::produce
Space_produce(self, env) == <<Block_new(" ")>>

\* Newline::produce
Newline_produce(self, env) == <<Block_new("\n")>>

RECURSIVE produce(_, _, _)

\* the result of a producer that was not evaluated, or of no producer
Nothing == [blocks |-> <<>>, visited |-> <<>>]

\* a mutant of Or_find: the results of all the children are merged
RECURSIVE Or_find_merge(_, _, _, _)
Or_find_merge(producers, env, path, i) ==
    IF i > Len(producers) THEN Nothing
    ELSE LET r == produce(producers[i], env, Append(path, i))
             rest == Or_find_merge(producers, env, path, i + 1)
         IN  [blocks |-> r.blocks \o rest.blocks,
              visited |-> r.visited \o rest.visited]

\* a mutant of Or_find: every child is evaluated before the first
\* non-empty result is looked for
RECURSIVE Or_find_eager(_, _, _, _)
Or_find_eager(producers, env, path, i) ==
    IF i > Len(producers) THEN Nothing
    ELSE LET r == produce(producers[i], env, Append(path, i))
             rest == Or_find_eager(producers, env, path, i + 1)
         IN  [blocks |-> IF r.blocks # <<>> THEN r.blocks ELSE rest.blocks,
              visited |-> r.visited \o rest.visited]

\* a mutant of Or_find: a child is skipped when none of its blocks has text
RECURSIVE Or_find_text(_, _, _, _)
Or_find_text(producers, env, path, i) ==
    IF i > Len(producers) THEN Nothing
    ELSE LET r == produce(producers[i], env, Append(path, i))
         IN  IF \E k \in 1..Len(r.blocks) : r.blocks[k].text # "" THEN r
             ELSE LET rest == Or_find_text(producers, env, path, i + 1)
                  IN  [blocks |-> rest.blocks,
                       visited |-> r.visited \o rest.visited]

\* Or::produce, the lazy iterator chain from child i on:
\* .map(|p| p.produce(environment)).find(|blocks| !blocks.is_empty())
\* evaluates a child only when find asks for it, and stops at the first
\* non-empty result; unwrap_or_default gives the empty Vec when none is found
RECURSIVE Or_find(_, _, _, _)
Or_find(producers, env, path, i) ==
    IF i > Len(producers) THEN Nothing
    ELSE LET r == produce(producers[i], env, Append(path, i))
         IN  IF r.blocks # <<>> THEN r
             ELSE LET rest == Or_find(producers, env, path, i + 1)
                  IN  [blocks |-> rest.blocks,
                       visited |-> r.visited \o rest.visited]

\* Or::produce
Or_produce(self, env, path) ==
    LET r == Or_find(self.producers, env, path, 1)
    IN  [blocks |-> r.blocks, visited |-> <<path>> \o r.visited]

\* a mutant of Sequence_flat_map: a child with an empty result leaves an
\* empty block as a placeholder
RECURSIVE Sequence_flat_map_placeholder(_, _, _, _)
Sequence_flat_map_placeholder(producers, env, path, i) ==
    IF i > Len(producers) THEN Nothing
    ELSE LET r == produce(producers[i], env, Append(path, i))
             rest == Sequence_flat_map_placeholder(producers, env, path, i + 1)
             own == IF r.blocks = <<>> THEN <<Block_new("")>> ELSE r.blocks
         IN  [blocks |-> own \o rest.blocks,
              visited |-> r.visited \o rest.visited]

\* Sequence::produce, the iterator chain from child i on:
\* .flat_map(|p| p.produce(environment)).collect()
RECURSIVE Sequence_flat_map(_, _, _, _)
Sequence_flat_map(producers, env, path, i) ==
    IF i > Len(producers) THEN Nothing
    ELSE LET r == produce(producers[i], env, Append(path, i))
             rest == Sequence_flat_map(producers, env, path, i + 1)
         IN  [blocks |-> r.blocks \o rest.blocks,
              visited |-> r.visited \o rest.visited]

\* Sequence::produce
Sequence_produce(self, env, path) ==
    LET r == Sequence_flat_map(self.producers, env, path, 1)
    IN  [blocks |-> r.blocks, visited |-> <<path>> \o r.visited]

\* the separator block of Separated::produce
Separated_separator(self) ==
    Block_with_style(Block_new(self.separator), self.separator_style)

\* a mutant of Separated_fold: the separator is pushed before every child
\* once the accumulator is non-empty, whether or not the child produced blocks
RECURSIVE Separated_fold_eager(_, _, _, _, _)
Separated_fold_eager(self, env, path, i, acc) ==
    IF i > Len(self.producers) THEN acc
    ELSE LET r == produce(self.producers[i], env, Append(path, i))
             sep == IF acc.blocks # <<>>
                    THEN <<Separated_separator(self)>> ELSE <<>>
         IN  Separated_fold_eager(self, env, path, i + 1,
                 [blocks |-> acc.blocks \o sep \o r.blocks,
                  visited |-> acc.visited \o r.visited])

\* a mutant of Separated_fold: the separator is pushed before every child
\* but the first, whatever the results
RECURSIVE Separated_fold_always(_, _, _, _, _)
Separated_fold_always(self, env, path, i, acc) ==
    IF i > Len(self.producers) THEN acc
    ELSE LET r == produce(self.producers[i], env, Append(path, i))
             sep == IF i > 1 THEN <<Separated_separator(self)>> ELSE <<>>
         IN  Separated_fold_always(self, env, path, i + 1,
                 [blocks |-> acc.blocks \o sep \o r.blocks,
                  visited |-> acc.visited \o r.visited])

\* Separated::produce, the fold from child i on with accumulator acc
RECURSIVE Separated_fold(_, _, _, _, _)
Separated_fold(self, env, path, i, acc) ==
    IF i > Len(self.producers) THEN acc
    ELSE LET r == produce(self.producers[i], env, Append(path, i))
             sep == IF acc.blocks # <<>> /\ r.blocks # <<>>
                    THEN <<Separated_separator(self)>> ELSE <<>>
         IN  Separated_fold(self, env, path, i + 1,
                 [blocks |-> acc.blocks \o sep \o r.blocks,
                  visited |-> acc.visited \o r.visited])

\* Separated::produce
Separated_produce(self, env, path) ==
    LET r == Separated_fold(self, env, path, 1, Nothing)
    IN  [blocks |-> r.blocks, visited |-> <<path>> \o r.visited]

\* Styled::produce
\* a mutant of Styled_produce: the style of the Styled producer comes first
Styled_produce_override(self, env, path) ==
    LET r == produce(self.producer, env, Append(path, 1))
    IN  [blocks |-> [k \in 1..Len(r.blocks) |->
                        [r.blocks[k] EXCEPT !.style = Style_or(self.style, @)]],
         visited |-> <<path>> \o r.visited]

Styled_produce(self, env, path) ==
    LET r == produce(self.producer, env, Append(path, 1))
    IN  [blocks |-> [k \in 1..Len(r.blocks) |->
                        [r.blocks[k] EXCEPT !.style = Style_or(@, self.style)]],
         visited |-> <<path>> \o r.visited]

\* the result of a leaf producer: its blocks, and its own path as visited
Leaf(leaf_blocks, path) == [blocks |-> leaf_blocks, visited |-> <<path>>]

\* BlockProducer::produce
produce(self, env, path) ==
    CASE self.kind = "Elapsed" -> Leaf(Elapsed_produce(self, env), path)
      [] self.kind = "ExitCode" -> Leaf(ExitCode_produce(self, env), path)
      [] self.kind = "GitHead" -> Leaf(GitHead_produce(self, env), path)
      [] self.kind = "GitPath" -> Leaf(GitPath_produce(self, env), path)
      [] self.kind = "Hostname" -> Leaf(Hostname_produce(self, env), path)
      [] self.kind = "Username" -> Leaf(Username_produce(self, env), path)
      [] self.kind = "Newline" -> Leaf(Newline_produce(self, env), path)
      [] self.kind = "Space" -> Leaf(Space_produce(self, env), path)
      [] self.kind = "Text" -> Leaf(Text_produce(self, env), path)
      [] self.kind = "WorkingDirectory" ->
            Leaf(WorkingDirectory_produce(self, env), path)
      [] self.kind = "ExitStatusSymbol" ->
            Leaf(ExitStatusSymbol_produce(self, env), path)
      [] self.kind = "Or" -> Or_produce(self, env, path)
      [] self.kind = "Sequence" -> Sequence_produce(self, env, path)
      [] self.kind = "Separated" -> Separated_produce(self, env, path)
      [] self.kind = "Styled" -> Styled_produce(self, env, path)

(***************************************************************************)
(* The producer trees and environments the evaluation is checked on.       *)
(***************************************************************************)
\* leaf producers: texts whose style has no, one or both colours, the exit
\* code (empty when the code is 0) and a space
LeafProducers ==
    { Text("a", Style_default),
      Text("b", Style_fg("crimson")),
      Text("c", [foreground |-> None, background |-> "dodgerblue"]),
      Text("d", [foreground |-> "crimson", background |-> "dodgerblue"]),
      ExitCode("!", Style_fg("crimson")),
      Space }

\* the default styles of the Styled producers
StyledStyles ==
    { [foreground |-> "teal", background |-> "black"],
      [foreground |-> "teal", background |-> None] }

\* the combinators whose children are the list ps
Combinators(ps) ==
    {Or(ps), Sequence(ps), Separated(ps, default_separator, Style_default)}

\* the producer trees of exactly n producers, and the lists of producer
\* trees of n producers in all
RECURSIVE ProducersOfSize(_), ProducerListsOfSize(_)
ProducersOfSize(n) ==
    IF n = 0 THEN {}
    ELSE (IF n = 1 THEN LeafProducers ELSE {})
         \cup UNION {Combinators(ps) : ps \in ProducerListsOfSize(n - 1)}
         \cup {Styled(p, s) : p \in ProducersOfSize(n - 1), s \in StyledStyles}

ProducerListsOfSize(n) ==
    IF n = 0 THEN {<<>>}
    ELSE UNION { {<<p>> \o ps : p \in ProducersOfSize(k),
                                ps \in ProducerListsOfSize(n - k)} : k \in 1..n }

\* previous exit codes: success, a failure, a negative code
ExitCodes == {0, 127, -1}

Environments == {with_prev_exit_code(Environment_new("/home/u"), code) : code \in ExitCodes}

(***************************************************************************)
(* Evaluation of one producer tree.                                        *)
(***************************************************************************)
\* the threads that call Environment::repo
Callers == {"main", "worker"}

\* no call of Environment::repo is followed: these variables keep their values
RepoIdle ==
    /\ repo_cell = Absent
    /\ repo_initializer = {}
    /\ discoveries = 0
    /\ call_pc = [t \in Callers |-> "idle"]
    /\ returned = [t \in Callers |-> <<>>]
    /\ disk = [found |-> "NotFound"]

\* no operation on colours is followed: these variables keep their values
ColorIdle ==
    /\ color_input = ""
    /\ color_self = Absent
    /\ color_other = Absent
    /\ color_string = Absent
    /\ color_result = Absent
    /\ color_eq = Absent
    /\ color_pc = "idle"

\* no shell session is followed: these variables keep their values
StoreIdle ==
    /\ ELIPROMPT_STATE = ""
    /\ clock = 0
    /\ store_call = Absent
    /\ PROMPT = Absent

\* no run of the program: the variables of a run keep these values
RunIdle ==
    /\ args = Absent
    /\ os = Absent
    /\ main_pc = "idle"
    /\ worker_pc = "idle"
    /\ sender_dropped = FALSE
    /\ worker_value = Absent
    /\ result = Absent
    /\ run_result = Absent
    /\ joined = FALSE
    /\ buffer = <<>>
    /\ fallback = Absent
    /\ stdout = <<>>
    /\ stderr = <<>>
    /\ exit_status = Absent

\* the root is any producer tree of at most MaxNodes producers
InitProduce ==
    /\ \E n \in 1..MaxNodes :
          \/ n = 1 /\ producer \in LeafProducers
          \/ \E ps \in ProducerListsOfSize(n - 1) : producer \in Combinators(ps)
          \/ \E p \in ProducersOfSize(n - 1), s \in StyledStyles :
                producer = Styled(p, s)
    /\ environment \in Environments
    /\ blocks = <<>>
    /\ visited = <<>>
    /\ pc = "init"
    /\ RunIdle
    /\ RepoIdle
    /\ ColorIdle
    /\ StoreIdle

\* the call producer.produce(&environment) on the root producer
Produce ==
    /\ pc = "init"
    /\ LET r == produce(producer, environment, <<>>)
       IN  /\ blocks' = r.blocks
           /\ visited' = r.visited
    /\ pc' = "produced"
    /\ UNCHANGED <<store_vars, color_vars, producer, environment, run_vars, repo_vars>>

NextProduce == Produce

SpecProduce == InitProduce /\ [][NextProduce]_vars

(***************************************************************************)
(* Evaluation of producer trees that read the git repository.              *)
(***************************************************************************)
\* leaves that yield always, by the exit code, by the repository
GitLeafProducers ==
    { Text("a", Style_default),
      ExitCode("!", Style_fg("crimson")),
      GitHead("@", Style_fg("teal")) }

\* the producer trees of exactly n producers over these leaves, and the
\* lists of such trees of n producers in all
RECURSIVE GitProducersOfSize(_), GitProducerListsOfSize(_)
GitProducersOfSize(n) ==
    IF n = 0 THEN {}
    ELSE (IF n = 1 THEN GitLeafProducers ELSE {})
         \cup UNION {Combinators(ps) : ps \in GitProducerListsOfSize(n - 1)}

GitProducerListsOfSize(n) ==
    IF n = 0 THEN {<<>>}
    ELSE UNION { {<<p>> \o ps : p \in GitProducersOfSize(k),
                                ps \in GitProducerListsOfSize(n - k)} : k \in 1..n }

\* working directories: in a repository, in one with no commit yet, where
\* git2 fails, and outside any repository
GitWorkingDirs == {"/repo/src", "/fresh", "/broken", "/home/u"}

GitEnvironments ==
    {with_prev_exit_code(Environment_new(dir), code) :
        dir \in GitWorkingDirs, code \in {0, 127}}

InitGit ==
    /\ \E n \in 1..MaxNodes :
          \/ n = 1 /\ producer \in GitLeafProducers
          \/ \E ps \in GitProducerListsOfSize(n - 1) : producer \in Combinators(ps)
    /\ environment \in GitEnvironments
    /\ blocks = <<>>
    /\ visited = <<>>
    /\ pc = "init"
    /\ RunIdle
    /\ RepoIdle
    /\ ColorIdle
    /\ StoreIdle

SpecGit == InitGit /\ [][NextProduce]_vars

(***************************************************************************)
(* Evaluation of one leaf producer: ExitCode, Elapsed, ExitStatusSymbol.   *)
(***************************************************************************)
\* the styles of the leaf producers: none, a foreground, both colours
LeafStyles ==
    {Style_default, Style_fg("crimson"), [foreground |-> "teal", background |-> "black"]}

\* the thresholds of Elapsed: the default, none, half a second
Thresholds == {default_threshold, Duration_from_secs(0), Duration_from_millis(500)}

\* the durations of the previous command: around the thresholds, with a
\* fraction under a millisecond, and with minutes, hours and days
PrevDurations ==
    { Duration_from_millis(500), Duration_new(1, 999999999), Duration_from_secs(2),
      Duration_new(2, 1), Duration_from_secs(5), Duration_new(5, 900000),
      Duration_from_millis(61500), Duration_from_secs(3661),
      Duration_new(90061, 1000000) }

\* the previous exit codes of the leaf evaluations
LeafExitCodes == {0, 1, 127, 255, -1, -128}

LeafInputs ==
    {ExitCode(prefix, style) : prefix \in {"!", ""}, style \in LeafStyles}
    \cup {Elapsed("took ", style, threshold) :
              style \in LeafStyles, threshold \in Thresholds}
    \cup {ExitStatusSymbol(contents, style, error_style) :
              contents \in {"", ">", "$"}, style \in LeafStyles,
              error_style \in LeafStyles}

LeafEnvironments ==
    {with_prev_exit_code(Environment_new("/home/u"), code) : code \in LeafExitCodes}
    \cup {with_prev_cmd_duration(with_prev_exit_code(Environment_new("/home/u"), code), d) :
              code \in LeafExitCodes, d \in PrevDurations}

InitLeaf ==
    /\ producer \in LeafInputs
    /\ environment \in LeafEnvironments
    /\ blocks = <<>>
    /\ visited = <<>>
    /\ pc = "init"
    /\ RunIdle
    /\ RepoIdle
    /\ ColorIdle
    /\ StoreIdle

SpecLeaf == InitLeaf /\ [][NextProduce]_vars

(***************************************************************************)
(* Evaluation of the producers that show a path: WorkingDirectory, GitPath. *)
(***************************************************************************)
\* the working directories: the home directory, below it, one whose text
\* begins like the home directory, elsewhere, the root, a trailing separator;
\* and the directories of Disk, in and outside repositories
PathWorkingDirs ==
    {"/home/u", "/home/u/proj", "/home/u/proj/src", "/home/user", "/home/u/",
     "/tmp", "/"}
    \cup {"/repo", "/repo/src", "/repo/src/block", "/fresh", "/bare.git",
          "/linked", "/broken"}

\* what dirs::home_dir() gives: no home directory, /home/u, the root
HomeDirs == {Absent, Some("/home/u"), Some("/home/u/"), Some("/home/user"), Some("/")}

PathSystems ==
    [cwd : {Some("/home/u")}, HOME : HomeDirs, USER : {"u"}, HOSTNAME : {"host"},
     ELIPROMPT_ALTERNATIVE_PROMPT : {FALSE}, TERM : {"xterm"}]

PathInputs ==
    {WorkingDirectory(prefix, style, home_as_tilde) :
        prefix \in {"", "in "}, style \in LeafStyles, home_as_tilde \in BOOLEAN}
    \cup {GitPath(prefix, style) : prefix \in {"", "git "}, style \in LeafStyles}

\* the variables of a run keep their values, os being the system the
\* producers read the home directory from
InitPath ==
    /\ producer \in PathInputs
    /\ environment \in {Environment_new(dir) : dir \in PathWorkingDirs}
    /\ blocks = <<>>
    /\ visited = <<>>
    /\ pc = "init"
    /\ os \in PathSystems
    /\ args = Absent
    /\ main_pc = "idle"
    /\ worker_pc = "idle"
    /\ sender_dropped = FALSE
    /\ worker_value = Absent
    /\ result = Absent
    /\ run_result = Absent
    /\ joined = FALSE
    /\ buffer = <<>>
    /\ fallback = Absent
    /\ stdout = <<>>
    /\ stderr = <<>>
    /\ exit_status = Absent
    /\ RepoIdle
    /\ ColorIdle
    /\ StoreIdle

SpecPath == InitPath /\ [][NextProduce]_vars

(***************************************************************************)
(* Evaluation of a text under two Styled producers, one in the other.      *)
(***************************************************************************)
\* Styled(Styled(Text)), for every style of the text and every two defaults
InitStyled ==
    /\ \E own \in Style, inner \in Style, outer \in Style :
          producer = Styled(Styled(Text("a", own), inner), outer)
    /\ environment \in Environments
    /\ blocks = <<>>
    /\ visited = <<>>
    /\ pc = "init"
    /\ RunIdle
    /\ RepoIdle
    /\ ColorIdle
    /\ StoreIdle

SpecStyled == InitStyled /\ [][NextProduce]_vars

(***************************************************************************)
(* Evaluation of a producer under two Styled producers, one in the other.  *)
(***************************************************************************)
\* the producers styled: a text, blocks of several styles, blocks that
\* depend on the exit code, a Styled producer, a producer of nothing
NestedChildren ==
    {Text("a", Style_fg("crimson")),
     Sequence(<<Text("a", Style_default), Text("b", Style_fg("teal")),
                Text("c", [foreground |-> None, background |-> "black"]),
                Text("d", [foreground |-> "dodgerblue", background |-> "crimson"])>>),
     Separated(<<ExitCode("!", Style_fg("crimson")), Text("b", Style_default)>>,
               default_separator, [foreground |-> None, background |-> "teal"]),
     Styled(Sequence(<<Text("a", Style_default), Space>>), Style_fg("black")),
     Or(<<ExitCode("!", Style_default)>>)}

InitNested ==
    /\ \E p \in NestedChildren, inner \in Style, outer \in Style :
          producer = Styled(Styled(p, inner), outer)
    /\ environment \in {with_prev_exit_code(Environment_new("/home/u"), code) :
                            code \in {0, 127}}
    /\ blocks = <<>>
    /\ visited = <<>>
    /\ pc = "init"
    /\ RunIdle
    /\ RepoIdle
    /\ ColorIdle
    /\ StoreIdle

SpecNested == InitNested /\ [][NextProduce]_vars

(***************************************************************************)
(* Evaluation of Or and Separated over children whose blocks have no text. *)
(***************************************************************************)
\* the children: texts with and without contents, the user and the machine
\* with their default prefix, which is empty, and with another one, and the
\* exit code, which yields nothing after 0
CountedChildren ==
    {Text("", Style_default), Text("", Style_fg("teal")), Text("a", Style_default),
     Username(Username_default_prefix, Style_default),
     Hostname(Hostname_default_prefix, Style_fg("crimson")),
     Username("@", Style_default),
     ExitCode("!", Style_fg("crimson"))}

\* the lists of one to three children
CountedLists ==
    {<<c>> : c \in CountedChildren}
    \cup {<<c, d>> : c \in CountedChildren, d \in CountedChildren}
    \cup {<<c, d, e>> : c \in CountedChildren, d \in CountedChildren,
                         e \in CountedChildren}

\* the systems: the names whoami gives
CountedSystems ==
    [cwd : {Some("/home/u")}, HOME : {Some("/home/u")}, USER : {"u", "root"},
     HOSTNAME : {"host"}, ELIPROMPT_ALTERNATIVE_PROMPT : {FALSE}, TERM : {"xterm"}]

InitCounted ==
    /\ \E ps \in CountedLists :
          \/ producer = Or(ps)
          \/ producer = Separated(ps, default_separator, Style_fg("dodgerblue"))
    /\ environment \in {with_prev_exit_code(Environment_new("/home/u"), code) :
                            code \in {0, 127}}
    /\ blocks = <<>>
    /\ visited = <<>>
    /\ pc = "init"
    /\ os \in CountedSystems
    /\ args = Absent
    /\ main_pc = "idle"
    /\ worker_pc = "idle"
    /\ sender_dropped = FALSE
    /\ worker_value = Absent
    /\ result = Absent
    /\ run_result = Absent
    /\ joined = FALSE
    /\ buffer = <<>>
    /\ fallback = Absent
    /\ stdout = <<>>
    /\ stderr = <<>>
    /\ exit_status = Absent
    /\ RepoIdle
    /\ ColorIdle
    /\ StoreIdle

SpecCounted == InitCounted /\ [][NextProduce]_vars

(***************************************************************************)
(* Calls of Environment::repo on one Environment, from two threads.        *)
(* self.repo.get_or_init(closure) on the once_cell::sync::OnceCell: a      *)
(* thread that finds the cell empty runs the closure unless another        *)
(* thread is running it, in which case it waits for the value.  What is   *)
(* on the disk may change at any time (git init, rm -r .git).              *)
(***************************************************************************)
DiskStates == {Disk(dir) : dir \in GitWorkingDirs}

InitRepo ==
    /\ environment \in {Environment_new(dir) : dir \in GitWorkingDirs}
    /\ disk = Disk(environment.working_dir)
    /\ repo_cell = Absent
    /\ repo_initializer = {}
    /\ discoveries = 0
    /\ call_pc = [t \in Callers |-> "idle"]
    /\ returned = [t \in Callers |-> <<>>]
    /\ producer = Space
    /\ blocks = <<>>
    /\ visited = <<>>
    /\ pc = "idle"
    /\ RunIdle
    /\ ColorIdle
    /\ StoreIdle

\* the thread t calls environment.repo()
repo_call(t) ==
    /\ call_pc[t] = "idle"
    /\ Len(returned[t]) < MaxCalls
    /\ call_pc' = [call_pc EXCEPT ![t] = "get_or_init"]
    /\ UNCHANGED <<store_vars, color_vars, eval_vars, run_vars, repo_cell, repo_initializer, discoveries,
                   returned, disk>>

\* get_or_init finds the cell full (at once, or after waiting for the
\* thread that ran the closure): repo returns repo.as_ref()
get_or_init_get(t) ==
    /\ call_pc[t] = "get_or_init"
    /\ repo_cell # Absent
    /\ returned' = [returned EXCEPT ![t] = Append(@, repo_cell[1])]
    /\ call_pc' = [call_pc EXCEPT ![t] = "idle"]
    /\ UNCHANGED <<store_vars, color_vars, eval_vars, run_vars, repo_cell, repo_initializer, discoveries, disk>>

\* a mutant of get_or_init_begin: a thread that finds the cell empty runs
\* the closure, whether or not another thread is running it
get_or_init_begin_unguarded(t) ==
    /\ call_pc[t] = "get_or_init"
    /\ repo_cell = Absent
    /\ repo_initializer' = repo_initializer \cup {t}
    /\ call_pc' = [call_pc EXCEPT ![t] = "init"]
    /\ UNCHANGED <<store_vars, color_vars, eval_vars, run_vars, repo_cell, discoveries, returned, disk>>

\* get_or_init finds the cell empty and no thread running the closure:
\* the thread t is the one that runs it
get_or_init_begin(t) ==
    /\ call_pc[t] = "get_or_init"
    /\ repo_cell = Absent
    /\ repo_initializer = {}
    /\ repo_initializer' = {t}
    /\ call_pc' = [call_pc EXCEPT ![t] = "init"]
    /\ UNCHANGED <<store_vars, color_vars, eval_vars, run_vars, repo_cell, discoveries, returned, disk>>

\* the closure runs: Repository::discover on what the disk holds now; the
\* cell takes the value if it is still empty, and repo returns the cell's
get_or_init_init(t) ==
    /\ call_pc[t] = "init"
    /\ discoveries' = discoveries + 1
    /\ LET value == repo_init(Repository_discover(disk))
           cell == IF repo_cell = Absent THEN Some(value) ELSE repo_cell
       IN  /\ repo_cell' = cell
           /\ returned' = [returned EXCEPT ![t] = Append(@, cell[1])]
    /\ repo_initializer' = repo_initializer \ {t}
    /\ call_pc' = [call_pc EXCEPT ![t] = "idle"]
    /\ UNCHANGED <<store_vars, color_vars, eval_vars, run_vars, disk>>

\* what is on the disk at the working directory changes
disk_change ==
    /\ disk' \in DiskStates \ {disk}
    /\ UNCHANGED <<store_vars, color_vars, eval_vars, run_vars, repo_cell, repo_initializer, discoveries,
                   call_pc, returned>>

NextRepo ==
    \/ \E t \in Callers :
          \/ repo_call(t)
          \/ get_or_init_get(t)
          \/ get_or_init_begin(t)
          \/ get_or_init_init(t)
    \/ disk_change

SpecRepo == InitRepo /\ [][NextRepo]_vars

(***************************************************************************)
(* Config (src/config.rs).                                                 *)
(***************************************************************************)
\* exit_code.rs default_prefix: the glyph U+F071
ExitCode_default_prefix == "<U+F071>"

\* Config::new(prompt): no alternative prompt, the default timeout
Config_new(prompt) ==
    [prompt |-> prompt, alternative_prompt |-> Absent, timeout |-> "1s"]

\* Config::with_alternative
with_alternative(config, prompt) ==
    [config EXCEPT !.alternative_prompt = Some(prompt)]

\* Config::produce: the alternative prompt when there is one and the
\* environment asks for it, the prompt otherwise
Config_produce(self, env, system) ==
    LET use_alternative == alternative_prompt_is_used(env, system)
        selected == IF self.alternative_prompt # Absent /\ use_alternative
                    THEN self.alternative_prompt[1] ELSE self.prompt
    IN  produce(selected, env, <<>>).blocks

\* a fallback prompt that shows the git branch as well
fallback_prompt_git ==
    Sequence(<<ExitCode(ExitCode_default_prefix, Style_fg("crimson")),
               GitHead("", Style_fg("teal")),
               ExitStatusSymbol(">", Style_fg("dodgerblue"), Style_fg("crimson")),
               Space>>)

\* config.rs fallback_prompt
fallback_prompt ==
    Sequence(<<ExitCode(ExitCode_default_prefix, Style_fg("crimson")),
               ExitStatusSymbol(">", Style_fg("dodgerblue"), Style_fg("crimson")),
               Space>>)

(***************************************************************************)
(* Evaluation of the fallback prompt, in and outside repositories.         *)
(***************************************************************************)
FallbackEnvironments ==
    {with_prev_exit_code(Environment_new(dir), code) :
        dir \in GitWorkingDirs \cup {"/repo", "/bare.git"}, code \in LeafExitCodes}
    \cup {with_prev_cmd_duration(with_prev_exit_code(Environment_new(dir), code), d) :
              dir \in GitWorkingDirs, code \in LeafExitCodes,
              d \in {Duration_from_millis(500), Duration_from_secs(5)}}

InitFallback ==
    /\ producer = fallback_prompt
    /\ environment \in FallbackEnvironments
    /\ blocks = <<>>
    /\ visited = <<>>
    /\ pc = "init"
    /\ RunIdle
    /\ RepoIdle
    /\ ColorIdle
    /\ StoreIdle

SpecFallback == InitFallback /\ [][NextProduce]_vars

(***************************************************************************)
(* main.rs: State, AppError, the arguments and the files of a run.         *)
(***************************************************************************)
CmdDuration_Unknown == [tag |-> "Unknown"]

CmdDuration_StartedAt(d) == [tag |-> "StartedAt", d |-> d]

CmdDuration_Elapsed(d) == [tag |-> "Elapsed", d |-> d]

\* State::default()
State_default == [prev_exit_code |-> 0, prev_cmd_duration |-> CmdDuration_Unknown]

AppError_BadConfig == <<"Configuration file is invalid", "expected value at line 1 column 1">>

AppError_BadExitCode(code) == <<"Invalid exit code " \o code>>

AppError_Prompt(source) == <<"Error while building prompt">> \o source

AppError_PromptGenerationPanicked == <<"Prompt generation panicked">>

AppError_PromptGenerationTimedOut == <<"Prompt generation timed out">>

AppError_DecodingStateFailed == <<"Failed to decode state", "provided string contained invalid character">>

\* the exit codes str::parse::<i32> is tried on
ParsedCodes == -9..130

\* the decimal forms of these exit codes, and the code each one writes
DecimalForms ==
    [form \in {to_string(n) : n \in ParsedCodes} |->
        CHOOSE n \in ParsedCodes : to_string(n) = form]

\* str::parse::<i32>: the integer whose decimal form the string is, if any
parse_i32(str) ==
    IF str \in DOMAIN DecimalForms THEN Ok(DecimalForms[str])
    ELSE Err(<<"invalid digit found in string">>)

\* the state strings of the runs: the empty string, a string that is no
\* base58, and the encoding of a state with a failed previous command
EncodedState ==
    [prev_exit_code |-> 3, prev_cmd_duration |-> CmdDuration_Elapsed(Duration_from_secs(5))]

\* Clock::new().elapsed(): the time of the monotonic clock at a tick
Clock_elapsed(ticks) == Duration_from_millis(500 * ticks)

\* serde_json of a Duration: {"secs":s,"nanos":n}
json_Duration(d) ==
    "{\"secs\":" \o NatToString(d.secs) \o ",\"nanos\":" \o NatToString(d.nanos) \o "}"

\* serde_json of a CmdDuration: "Unknown", {"StartedAt":d}, {"Elapsed":d}
json_CmdDuration(c) ==
    IF c.tag = "Unknown" THEN "\"Unknown\""
    ELSE "{\"" \o c.tag \o "\":" \o json_Duration(c.d) \o "}"

\* serde_json::to_string(&state)
serde_json_to_string(state) ==
    "{\"prev_exit_code\":" \o to_string(state.prev_exit_code)
    \o ",\"prev_cmd_duration\":" \o json_CmdDuration(state.prev_cmd_duration) \o "}"

\* bs58::encode: the digits of the encoding are not computed; the encoded
\* text is written as the text it encodes after a mark
bs58_encode(text) == "bs58:" \o text

\* print_state: the line it prints
print_state(state) == bs58_encode(serde_json_to_string(state))

\* the states `eliprompt store` can print: the exit codes of the shell
\* sessions, and the durations the clock can give
PrintedStates ==
    [prev_exit_code : {0, 2},
     prev_cmd_duration :
        {CmdDuration_Unknown}
        \cup {CmdDuration_StartedAt(Clock_elapsed(t)) : t \in 0..MaxTicks}
        \cup {CmdDuration_Elapsed(Clock_elapsed(t)) : t \in 0..MaxTicks}]

\* bs58::decode and serde_json::from_slice on the lines print_state prints:
\* the State each line encodes
DecodedStates ==
    [line \in {print_state(st) : st \in PrintedStates} |->
        CHOOSE st \in PrintedStates : print_state(st) = line]

\* read_state: the State a line of print_state encodes; the default for an
\* empty string; an error for a string that is no base58
read_state(state_str) ==
    IF state_str = "" THEN Ok(State_default)
    ELSE IF state_str = "0OIl" THEN Err(AppError_DecodingStateFailed)
    ELSE IF state_str = "3vQB7B6MrGQZaxCuFg4oh" THEN Ok(EncodedState)
    ELSE IF state_str \in DOMAIN DecodedStates THEN Ok(DecodedStates[state_str])
    ELSE Err(AppError_DecodingStateFailed)

\* the configuration a user wrote in custom.json
CustomConfig ==
    with_alternative(
        Config_new(Styled(Sequence(<<Separated(<<Text("u", Style_default),
                                                 ExitCode("!", Style_fg("crimson"))>>,
                                               default_separator, Style_default),
                                     Newline,
                                     ExitStatusSymbol("$", Style_fg("dodgerblue"),
                                                      Style_fg("crimson")),
                                     Space>>),
                          [foreground |-> "teal", background |-> "black"])),
        Sequence(<<ExitCode("", Style_fg("crimson")), Text("$", Style_default)>>))

\* the configuration in the default configuration file
DefaultFileConfig ==
    Config_new(Or(<<ExitCode("!", Style_fg("crimson")), Text("ok", Style_fg("teal"))>>))

\* the configuration a user wrote in git.json: the branch, then a text
GitConfig ==
    Config_new(Sequence(<<GitHead("@", Style_fg("teal")), Text("$", Style_default)>>))

\* the configuration a user wrote in elapsed.json: the duration of the
\* previous command whatever it is, then a text
ElapsedConfig ==
    Config_new(Sequence(<<Elapsed("took ", Style_fg("teal"), Duration_from_secs(0)),
                          Text("$", Style_default)>>))

\* read_config: broken.json is no valid configuration
read_config(path) ==
    IF path = "broken.json" THEN Err(AppError_BadConfig)
    ELSE IF path = "custom.json" THEN Ok(CustomConfig)
    ELSE IF path = "git.json" THEN Ok(GitConfig)
    ELSE IF path = "elapsed.json" THEN Ok(ElapsedConfig)
    ELSE Ok(DefaultFileConfig)

\* print_prompt, lines 350-366: the values the worker's closure captures,
\* or the first error (the default configuration file exists in these runs)
print_prompt_setup(arguments) ==
    LET exit_code == IF arguments.prev_exit_code = None THEN Ok(Absent)
                     ELSE LET n == parse_i32(arguments.prev_exit_code)
                          IN  IF n.ok THEN Ok(Some(n.value))
                              ELSE Err(AppError_BadExitCode(arguments.prev_exit_code))
        state == IF arguments.state = None THEN Ok(State_default)
                 ELSE read_state(arguments.state)
        config == IF arguments.config # None THEN read_config(arguments.config)
                  ELSE read_config("config.json")
    IN  IF ~exit_code.ok THEN exit_code
        ELSE IF ~state.ok THEN state
        ELSE IF ~config.ok THEN config
        ELSE Ok([config |-> config.value, exit_code |-> exit_code.value,
                 working_dir |-> arguments.pwd, state |-> state.value])

\* make_prompt
make_prompt(config, exit_code, working_dir, state, system) ==
    LET code == IF exit_code # Absent THEN exit_code[1] ELSE state.prev_exit_code
        env0 == IF working_dir # None THEN Ok(Environment_new(working_dir))
                ELSE Environment_current(system)
    IN  IF ~env0.ok THEN Err(AppError_Prompt(env0.error))
        ELSE LET env1 == with_prev_exit_code(env0.value, code)
                 env2 == IF state.prev_cmd_duration.tag = "Elapsed"
                         THEN with_prev_cmd_duration(env1, state.prev_cmd_duration.d)
                         ELSE env1
             IN  Ok(Config_produce(config, env2, system))

\* show_prompt: every block is painted into the shell's buffer, in order
\* (the buffer is kept as the blocks painted, text and style)
show_prompt(shell, prompt_blocks) == shell \o prompt_blocks

\* print_error: the error, then each of its causes
print_error(e) ==
    [i \in 1..Len(e) |-> IF i = 1 THEN "Error: " \o e[i] ELSE "Because: " \o e[i]]

(***************************************************************************)
(* Colours: parsing a text, printing a colour and parsing what was         *)
(* printed, comparing two colours.                                         *)
(***************************************************************************)
\* the texts given to try_from: hexadecimal colours in both cases, '#' with
\* fewer and more digits, with decimal digits only, with other characters,
\* names of the palette and other words
ColorStrings ==
    {"#ff0000", "#FF00fe", "#000000", "#123456", "#00ff00", "#0a0b0c", "#ffffff",
     "#255", "#0", "#12345", "#1234567", "#16777215", "#16777216", "#fffff",
     "#fffffff", "#", "#+12345", "#gg0000", "#-00001", "# 12345",
     "red", "crimson", "teal", "aqua", "Red", "rouge", "", "ff0000", "255"}

\* the bytes of the colours built from numbers
ColorBytes == {0, 9, 16, 171, 255}

\* the colours: built from numbers, constants of color.rs, parsed from a name
ColorValues ==
    {Color_new(r, g, b) : r \in ColorBytes, g \in ColorBytes, b \in {0, 60, 255}}
    \cup {BLACK, CRIMSON, CYAN, DODGERBLUE, NAVY, TEAL, WHITE}
    \cup {Color_try_from("red").value, Color_try_from("aqua").value}

\* the colours compared with another one: constants, colours built from
\* the same bytes, colours parsed from the same and from another name
ComparedColors ==
    {BLACK, CRIMSON, CYAN, Color_new(0, 0, 0), Color_new(0, 255, 255),
     Color_new(255, 0, 0), Color_try_from("red").value,
     Color_try_from("crimson").value, Color_try_from("aqua").value}

\* the variables of the evaluation, of a run and of the repository keep
\* their values
InitColor ==
    /\ color_input \in ColorStrings
    /\ color_self \in ColorValues
    /\ color_other \in ComparedColors
    /\ color_string = Absent
    /\ color_result = Absent
    /\ color_eq = Absent
    /\ color_pc = "init"
    /\ producer = Space
    /\ environment = Environment_new("")
    /\ blocks = <<>>
    /\ visited = <<>>
    /\ pc = "idle"
    /\ RunIdle
    /\ RepoIdle
    /\ StoreIdle

\* Color::try_from(color_input), s.parse::<Color>()
try_from ==
    /\ color_pc = "init"
    /\ color_result' = Color_try_from(color_input)
    /\ color_pc' = "parsed"
    /\ UNCHANGED <<color_input, color_self, color_other, color_string, color_eq,
                   eval_vars, run_vars, repo_vars, store_vars>>

\* color_self.to_string()
to_string_Color ==
    /\ color_pc = "init"
    /\ color_string' = Some(Color_to_string(color_self))
    /\ color_pc' = "printed"
    /\ UNCHANGED <<color_input, color_self, color_other, color_result, color_eq,
                   eval_vars, run_vars, repo_vars, store_vars>>

\* parsing what to_string gave: Deserialize of what Serialize wrote
try_from_printed ==
    /\ color_pc = "printed"
    /\ color_result' = Color_try_from(color_string[1])
    /\ color_pc' = "reparsed"
    /\ UNCHANGED <<color_input, color_self, color_other, color_string, color_eq,
                   eval_vars, run_vars, repo_vars, store_vars>>

\* color_self == color_other
eq ==
    /\ color_pc = "init"
    /\ color_eq' = Some(Color_eq(color_self, color_other))
    /\ color_pc' = "compared"
    /\ UNCHANGED <<color_input, color_self, color_other, color_string, color_result,
                   eval_vars, run_vars, repo_vars, store_vars>>

NextColor ==
    \/ try_from
    \/ to_string_Color
    \/ try_from_printed
    \/ eq

SpecColor == InitColor /\ [][NextColor]_vars

(***************************************************************************)
(* One run of `eliprompt prompt`.                                          *)
(***************************************************************************)
Arguments ==
    [prev_exit_code : {None, "0", "2", "x"},
     pwd : {None, "/tmp", "/repo/src", "/broken"},
     state : {None, "0OIl", "3vQB7B6MrGQZaxCuFg4oh"},
     config : {None, "custom.json", "git.json", "broken.json"},
     test : BOOLEAN]

Systems ==
    [cwd : {Absent, Some("/home/u")},
     HOME : {Some("/home/u")}, USER : {"u"}, HOSTNAME : {"host"},
     ELIPROMPT_ALTERNATIVE_PROMPT : BOOLEAN,
     TERM : {"xterm"}]

Init ==
    /\ args \in Arguments
    /\ os \in Systems
    /\ main_pc = "print_prompt"
    /\ worker_pc = "idle"
    /\ sender_dropped = FALSE
    /\ worker_value = Absent
    /\ result = Absent
    /\ run_result = Absent
    /\ joined = FALSE
    /\ buffer = <<>>
    /\ fallback = Absent
    /\ stdout = <<>>
    /\ stderr = <<>>
    /\ exit_status = Absent
    /\ RepoIdle
    /\ ColorIdle
    /\ StoreIdle
    /\ producer = Space
    /\ environment = Environment_new("")
    /\ blocks = <<>>
    /\ visited = <<>>
    /\ pc = "idle"

\* print_prompt, lines 350-378: an error of the arguments is returned,
\* otherwise the channel is made and the worker thread is spawned
print_prompt_spawn ==
    /\ main_pc = "print_prompt"
    /\ LET setup == print_prompt_setup(args)
       IN  IF setup.ok
           THEN /\ worker_pc' = "make_prompt"
                /\ main_pc' = "recv_timeout"
                /\ UNCHANGED result
           ELSE /\ result' = Some(setup)
                /\ main_pc' = "print_or_fallback"
                /\ UNCHANGED worker_pc
    /\ UNCHANGED <<store_vars, color_vars, eval_vars, repo_vars, args, os, sender_dropped, worker_value, run_result,
                   joined, buffer, fallback, stdout, stderr, exit_status>>

\* the process is running: its threads take steps
Alive == main_pc # "exited"

\* worker, lines 369-375: make_prompt returns its Result
worker_make_prompt ==
    /\ Alive
    /\ worker_pc = "make_prompt"
    /\ LET c == print_prompt_setup(args).value
       IN  worker_value' =
               Some(Ok(make_prompt(c.config, c.exit_code, c.working_dir, c.state, os)))
    /\ worker_pc' = "drop_sender"
    /\ UNCHANGED <<store_vars, color_vars, eval_vars, repo_vars, args, os, main_pc, sender_dropped, result, run_result,
                   joined, buffer, fallback, stdout, stderr, exit_status>>

\* worker: make_prompt panics; the closure unwinds
worker_panic ==
    /\ Alive
    /\ worker_pc = "make_prompt"
    /\ worker_value' = Some(Err(<<"Box<dyn Any + Send>">>))
    /\ worker_pc' = "drop_sender"
    /\ UNCHANGED <<store_vars, color_vars, eval_vars, repo_vars, args, os, main_pc, sender_dropped, result, run_result,
                   joined, buffer, fallback, stdout, stderr, exit_status>>

\* a mutant of worker_drop_sender: the sender may be dropped while
\* make_prompt is still running
worker_drop_sender_early ==
    /\ Alive
    /\ \/ worker_pc = "drop_sender" /\ worker_pc' = "return"
       \/ worker_pc = "make_prompt" /\ ~sender_dropped /\ worker_pc' = worker_pc
    /\ sender_dropped' = TRUE
    /\ UNCHANGED <<store_vars, color_vars, eval_vars, repo_vars, args, os, main_pc, worker_value, result, run_result,
                   joined, buffer, fallback, stdout, stderr, exit_status>>

\* worker, line 376: drop(sender); when the closure unwinds, the sender it
\* captured is dropped as well
worker_drop_sender ==
    /\ Alive
    /\ worker_pc = "drop_sender"
    /\ sender_dropped' = TRUE
    /\ worker_pc' = "return"
    /\ UNCHANGED <<store_vars, color_vars, eval_vars, repo_vars, args, os, main_pc, worker_value, result, run_result,
                   joined, buffer, fallback, stdout, stderr, exit_status>>

\* a mutant of worker_return: the worker shows the blocks it computed
\* itself, in the shell's buffer, before it returns
worker_return_show ==
    /\ Alive
    /\ worker_pc = "return"
    /\ worker_pc' = "finished"
    /\ buffer' = IF worker_value[1].ok /\ worker_value[1].value.ok
                 THEN show_prompt(buffer, worker_value[1].value.value)
                 ELSE buffer
    /\ UNCHANGED <<store_vars, color_vars, eval_vars, repo_vars, args, os, main_pc, sender_dropped, worker_value,
                   result, run_result, joined, fallback, stdout, stderr,
                   exit_status>>

\* worker, line 377: the closure returns (or finishes unwinding) and the
\* thread ends
worker_return ==
    /\ Alive
    /\ worker_pc = "return"
    /\ worker_pc' = "finished"
    /\ UNCHANGED <<store_vars, color_vars, eval_vars, repo_vars, args, os, main_pc, sender_dropped, worker_value,
                   result, run_result, joined, buffer, fallback, stdout, stderr,
                   exit_status>>

\* a mutant of recv_timeout_Timeout: the worker is joined after the timeout
recv_timeout_Timeout_join ==
    /\ main_pc = "recv_timeout"
    /\ ~sender_dropped
    /\ result' = Some(Err(AppError_PromptGenerationTimedOut))
    /\ main_pc' = "join"
    /\ UNCHANGED <<store_vars, color_vars, eval_vars, repo_vars, args, os, worker_pc, sender_dropped, worker_value,
                   run_result, joined, buffer, fallback, stdout, stderr, exit_status>>

\* main, lines 379 and 383: recv_timeout returns Timeout: the timeout
\* elapsed and the sender is neither dropped nor used (nothing is ever
\* sent); print_prompt returns PromptGenerationTimedOut
recv_timeout_Timeout ==
    /\ main_pc = "recv_timeout"
    /\ ~sender_dropped
    /\ result' = Some(Err(AppError_PromptGenerationTimedOut))
    /\ main_pc' = "print_or_fallback"
    /\ UNCHANGED <<store_vars, color_vars, eval_vars, repo_vars, args, os, worker_pc, sender_dropped, worker_value,
                   run_result, joined, buffer, fallback, stdout, stderr, exit_status>>

\* main, lines 379-380: recv_timeout returns Disconnected: the sender was
\* dropped before the timeout elapsed
recv_timeout_Disconnected ==
    /\ main_pc = "recv_timeout"
    /\ sender_dropped
    /\ main_pc' = "join"
    /\ UNCHANGED <<store_vars, color_vars, eval_vars, repo_vars, args, os, worker_pc, sender_dropped, worker_value,
                   result, run_result, joined, buffer, fallback, stdout, stderr,
                   exit_status>>

\* a mutant of join_unwrap_or: a panic of the worker is reported as a timeout
join_unwrap_or_timed_out(thread_result) ==
    IF thread_result.ok THEN thread_result.value
    ELSE Err(AppError_PromptGenerationTimedOut)

\* a mutant of join_unwrap_or: the blocks of the worker are lost
join_unwrap_or_empty(thread_result) ==
    IF ~thread_result.ok THEN Err(AppError_PromptGenerationPanicked)
    ELSE IF thread_result.value.ok THEN Ok(<<>>) ELSE thread_result.value

\* line 381: blocks.join().unwrap_or(Err(AppError::PromptGenerationPanicked))
\* on the thread::Result join gives
join_unwrap_or(thread_result) ==
    IF thread_result.ok THEN thread_result.value
    ELSE Err(AppError_PromptGenerationPanicked)

\* main, lines 381-385: join waits for the thread to end; an error is
\* returned by `?`, the blocks are handed to show_prompt
join_show_prompt ==
    /\ main_pc = "join"
    /\ worker_pc = "finished"
    /\ joined' = TRUE
    /\ LET prompt_blocks == join_unwrap_or(worker_value[1])
       IN  IF prompt_blocks.ok
           THEN /\ buffer' = show_prompt(buffer, prompt_blocks.value)
                /\ result' = Some(Ok("()"))
                /\ main_pc' = "print"
           ELSE /\ result' = Some(prompt_blocks)
                /\ main_pc' = "print_or_fallback"
                /\ UNCHANGED buffer
    /\ UNCHANGED <<store_vars, color_vars, eval_vars, repo_vars, args, os, worker_pc, sender_dropped, worker_value,
                   run_result, fallback, stdout, stderr, exit_status>>

\* print_fallback_prompt: the environment it evaluates against, and the
\* blocks of the fallback prompt or its error
print_fallback_prompt(system) ==
    LET env == Environment_current(system)
    IN  IF ~env.ok
        THEN [environment |-> Absent, result |-> Err(AppError_Prompt(env.error))]
        ELSE [environment |-> Some(env.value),
              result |-> Ok(Config_produce(Config_new(fallback_prompt), env.value, system))]

\* a mutant of print_or_fallback_returns: the error of the fallback prompt
\* is returned when it has one
print_or_fallback_returns_last(e, fallback_result) ==
    IF fallback_result.ok THEN e ELSE fallback_result

\* print_or_fallback, lines 338-341: `let _ = print_fallback_prompt(shell);
\* Err(e)`: what it returns, given the Err e of print_prompt and the Result
\* of print_fallback_prompt
print_or_fallback_returns(e, fallback_result) == e

\* main, lines 335-342: print_prompt returned Err(e); in test mode it is
\* returned, otherwise the fallback prompt is painted into the buffer first
print_or_fallback_Err ==
    /\ main_pc = "print_or_fallback"
    /\ IF args.test
       THEN /\ run_result' = result
            /\ UNCHANGED <<buffer, fallback>>
       ELSE LET f == print_fallback_prompt(os)
            IN  /\ fallback' = Some(f)
                /\ buffer' = IF f.result.ok THEN show_prompt(buffer, f.result.value)
                             ELSE buffer
                /\ run_result' = Some(print_or_fallback_returns(result[1], f.result))
    /\ main_pc' = "main"
    /\ UNCHANGED <<store_vars, color_vars, eval_vars, repo_vars, args, os, worker_pc, sender_dropped, worker_value,
                   result, joined, stdout, stderr, exit_status>>

\* main, process_prompt lines 320-326 after Ok: a newline and the buffer are
\* written to the standard output; run returns Ok and the process ends
process_prompt_print ==
    /\ main_pc = "print"
    /\ stdout' = stdout \o <<Block_new("\n")>> \o buffer
    /\ exit_status' = Some(0)
    /\ main_pc' = "exited"
    /\ UNCHANGED <<store_vars, color_vars, eval_vars, repo_vars, args, os, worker_pc, sender_dropped, worker_value,
                   result, run_result, joined, buffer, fallback, stderr>>

\* main, lines 316-318 and 294-297: `?` returns the Err from process_prompt
\* and run; print_error writes it and the process exits with status 1
main_print_error ==
    /\ main_pc = "main"
    /\ stderr' = stderr \o print_error(run_result[1].error)
    /\ exit_status' = Some(1)
    /\ main_pc' = "exited"
    /\ UNCHANGED <<store_vars, color_vars, eval_vars, repo_vars, args, os, worker_pc, sender_dropped, worker_value,
                   result, run_result, joined, buffer, fallback, stdout>>

\* the steps of the main thread
MainThread ==
    \/ print_prompt_spawn
    \/ recv_timeout_Timeout
    \/ recv_timeout_Disconnected
    \/ join_show_prompt
    \/ print_or_fallback_Err
    \/ process_prompt_print
    \/ main_print_error

\* the steps the worker takes once make_prompt is over
WorkerFinish == worker_drop_sender \/ worker_return

Next ==
    \/ MainThread
    \/ worker_make_prompt
    \/ worker_panic
    \/ WorkerFinish

Spec == Init /\ [][Next]_vars

\* The main thread runs whenever it can; recv_timeout returns when the
\* timeout has elapsed at the latest.  A worker that is past make_prompt
\* has only its return left and is scheduled.  Nothing makes make_prompt
\* return: it may take any time, or forever.
FairSpec == Spec /\ WF_vars(MainThread) /\ WF_vars(WorkerFinish)

(***************************************************************************)
(* `eliprompt store` and the shell that keeps its output: the hooks of     *)
(* install_zsh (eliprompt_precmd before a prompt, eliprompt_preexec before *)
(* a command), and calls of store and prompt with any arguments.           *)
(***************************************************************************)
\* start_timer
start_timer(state, now) ==
    [state EXCEPT !.prev_cmd_duration = CmdDuration_StartedAt(now)]

\* a mutant of stop_timer: a duration that was measured before is kept
stop_timer_keep(state, now) ==
    IF state.prev_cmd_duration.tag = "StartedAt"
    THEN LET start == state.prev_cmd_duration.d
             end == Duration_max(start, now)
         IN  [state EXCEPT !.prev_cmd_duration = CmdDuration_Elapsed(Duration_sub(end, start))]
    ELSE state

\* stop_timer
stop_timer(state, now) ==
    IF state.prev_cmd_duration.tag = "StartedAt"
    THEN LET start == state.prev_cmd_duration.d
             end == Duration_max(start, now)
         IN  [state EXCEPT !.prev_cmd_duration = CmdDuration_Elapsed(Duration_sub(end, start))]
    ELSE [state EXCEPT !.prev_cmd_duration = CmdDuration_Unknown]

\* process_store: the line it prints, or its error; store_args are --state,
\* the timer flag if any and --prev-exit-code if any
process_store(store_args, now) ==
    LET read == read_state(store_args.state)
    IN  IF ~read.ok THEN read
        ELSE LET timed == IF store_args.flag = "start-timer"
                          THEN start_timer(read.value, now)
                          ELSE IF store_args.flag = "stop-timer"
                          THEN stop_timer(read.value, now)
                          ELSE read.value
                 code == IF store_args.prev_exit_code = None
                         THEN Ok(timed.prev_exit_code)
                         ELSE parse_i32(store_args.prev_exit_code)
             IN  IF ~code.ok THEN Err(AppError_BadExitCode(store_args.prev_exit_code))
                 ELSE Ok(print_state([timed EXCEPT !.prev_exit_code = code.value]))

\* X=$(eliprompt store ...): what the shell variable gets, the line printed
\* or nothing
captured(store_result) == IF store_result.ok THEN store_result.value ELSE ""

\* what store_call keeps of a call of process_store
StoreCall(store_args, now) ==
    LET read == read_state(store_args.state)
    IN  [flag |-> store_args.flag,
         found |-> IF read.ok THEN Some(read.value.prev_cmd_duration) ELSE Absent,
         now |-> now,
         result |-> process_store(store_args, now)]

\* the system of the shell session
StoreSystem ==
    [cwd |-> Some("/home/u"), HOME |-> Some("/home/u"), USER |-> "u",
     HOSTNAME |-> "host",
     ELIPROMPT_ALTERNATIVE_PROMPT |-> FALSE, TERM |-> "xterm"]

\* `eliprompt prompt --state state_str --config elapsed.json`: print_prompt
\* up to the Result of make_prompt
prompt_from_state(state_str) ==
    LET setup == print_prompt_setup([prev_exit_code |-> None, pwd |-> "/tmp",
                                     state |-> state_str, config |-> "elapsed.json",
                                     test |-> FALSE])
    IN  IF ~setup.ok THEN setup
        ELSE make_prompt(setup.value.config, setup.value.exit_code,
                         setup.value.working_dir, setup.value.state, StoreSystem)

StoreFlags == {None, "start-timer", "stop-timer"}

InitStore ==
    /\ ELIPROMPT_STATE = ""
    /\ clock \in 0..MaxTicks
    /\ store_call = Absent
    /\ PROMPT = Absent
    /\ producer = Space
    /\ environment = Environment_new("")
    /\ blocks = <<>>
    /\ visited = <<>>
    /\ pc = "idle"
    /\ RunIdle
    /\ RepoIdle
    /\ ColorIdle

\* ELIPROMPT_STATE=$(eliprompt store --state "$ELIPROMPT_STATE" ...) with
\* any flag, and no exit code or one that is no number
store ==
    /\ \E flag \in StoreFlags, code \in {None, "x"} :
          LET call == StoreCall([state |-> ELIPROMPT_STATE, flag |-> flag,
                                 prev_exit_code |-> code], Clock_elapsed(clock))
          IN  /\ store_call' = Some(call)
              /\ ELIPROMPT_STATE' = captured(call.result)
    /\ UNCHANGED <<clock, PROMPT, eval_vars, run_vars, repo_vars, color_vars>>

\* eliprompt_preexec: store --start-timer --prev-exit-code 0
eliprompt_preexec ==
    /\ LET call == StoreCall([state |-> ELIPROMPT_STATE, flag |-> "start-timer",
                              prev_exit_code |-> "0"], Clock_elapsed(clock))
       IN  /\ store_call' = Some(call)
           /\ ELIPROMPT_STATE' = captured(call.result)
    /\ UNCHANGED <<clock, PROMPT, eval_vars, run_vars, repo_vars, color_vars>>

\* eliprompt_precmd: store --stop-timer --prev-exit-code $?, then the prompt
\* from the state that was stored
eliprompt_precmd ==
    /\ \E prev_status \in {"0", "2"} :
          LET call == StoreCall([state |-> ELIPROMPT_STATE, flag |-> "stop-timer",
                                 prev_exit_code |-> prev_status], Clock_elapsed(clock))
          IN  /\ store_call' = Some(call)
              /\ ELIPROMPT_STATE' = captured(call.result)
              /\ PROMPT' = Some([state |-> captured(call.result), hook |-> Some(call),
                                 result |-> prompt_from_state(captured(call.result))])
    /\ UNCHANGED <<clock, eval_vars, run_vars, repo_vars, color_vars>>

\* eliprompt prompt --state "$ELIPROMPT_STATE", outside the hooks
prompt ==
    /\ PROMPT' = Some([state |-> ELIPROMPT_STATE, hook |-> Absent,
                       result |-> prompt_from_state(ELIPROMPT_STATE)])
    /\ UNCHANGED <<ELIPROMPT_STATE, clock, store_call, eval_vars, run_vars, repo_vars,
                   color_vars>>

\* half a second passes
tick ==
    /\ clock < MaxTicks
    /\ clock' = clock + 1
    /\ UNCHANGED <<ELIPROMPT_STATE, store_call, PROMPT, eval_vars, run_vars, repo_vars,
                   color_vars>>

\* the machine restarts and the monotonic clock with it; the shell variable
\* is the one of a session that was kept (or of another machine)
reboot ==
    /\ clock > 0
    /\ clock' = 0
    /\ UNCHANGED <<ELIPROMPT_STATE, store_call, PROMPT, eval_vars, run_vars, repo_vars,
                   color_vars>>

NextStore ==
    \/ store
    \/ eliprompt_preexec
    \/ eliprompt_precmd
    \/ prompt
    \/ tick
    \/ reboot

SpecStore == InitStore /\ [][NextStore]_vars

(***************************************************************************)
(* Properties of the evaluation (checked under SpecProduce).               *)
(***************************************************************************)
\* the blocks of child i of the root producer, evaluated on its own
ChildBlocks(i) == produce(producer.producers[i], environment, <<i>>).blocks

\* the indices of the root's children whose result is non-empty
NonEmptyChildren ==
    {i \in 1..Len(producer.producers) : ChildBlocks(i) # <<>>}

\* C1: Or.produce returns exactly the whole result of the first child (in
\* list order) whose recursively evaluated result is non-empty, never a merge;
\* a nested Sequence child is one candidate, tested on its concatenated
\* result; with no non-empty child, or no child, the result is empty.
C1_OrFirstNonEmpty ==
    (pc = "produced" /\ producer.kind = "Or") =>
        IF NonEmptyChildren = {} THEN blocks = <<>>
        ELSE \E i \in NonEmptyChildren :
                /\ \A j \in NonEmptyChildren : i <= j
                /\ blocks = ChildBlocks(i)

\* an Or whose first child is a Sequence that is non-empty as a whole though
\* its own first child is empty: the Sequence's result is returned, whole
C1_Witness ==
    /\ pc = "produced"
    /\ producer.kind = "Or"
    /\ Len(producer.producers) >= 1
    /\ producer.producers[1].kind = "Sequence"
    /\ Len(producer.producers[1].producers) = 2
    /\ produce(producer.producers[1].producers[1], environment, <<1, 1>>).blocks = <<>>
    /\ blocks = ChildBlocks(1)
    /\ blocks # <<>>

\* rs[1], sep, rs[2], sep, ..., rs[n] for a list rs of block lists
RECURSIVE Interleave(_, _)
Interleave(rs, sep) ==
    IF rs = <<>> THEN <<>>
    ELSE IF Len(rs) = 1 THEN rs[1]
    ELSE rs[1] \o <<sep>> \o Interleave(Tail(rs), sep)

\* the non-empty results of the root's children, in child order
NonEmptyChildBlocks ==
    SelectSeq([i \in 1..Len(producer.producers) |-> ChildBlocks(i)],
              LAMBDA r : r # <<>>)

\* the sum of the lengths of a list of block lists
RECURSIVE TotalLen(_)
TotalLen(rs) == IF rs = <<>> THEN 0 ELSE Len(Head(rs)) + TotalLen(Tail(rs))

\* C2: Separated.produce emits the children's fragments in child order with
\* exactly one separator fragment (separator text and style) between every
\* two consecutive non-empty child results: max(0, k-1) separators for k
\* non-empty children, none first, none last, none for an empty child.
C2_SeparatedInterleaves ==
    (pc = "produced" /\ producer.kind = "Separated") =>
        LET sep == [text |-> producer.separator, style |-> producer.separator_style]
            k == Len(NonEmptyChildBlocks)
        IN  /\ blocks = Interleave(NonEmptyChildBlocks, sep)
            /\ Len(blocks) = TotalLen(NonEmptyChildBlocks)
                                + (IF k = 0 THEN 0 ELSE k - 1)

\* Separated([A, B, C]) with A and C non-empty and B empty gives
\* A-fragments, sep, C-fragments
C2_Witness ==
    /\ pc = "produced"
    /\ producer.kind = "Separated"
    /\ Len(producer.producers) = 3
    /\ ChildBlocks(1) # <<>>
    /\ ChildBlocks(2) = <<>>
    /\ ChildBlocks(3) # <<>>
    /\ blocks = ChildBlocks(1)
                 \o <<[text |-> " | ", style |-> Style_default]>>
                 \o ChildBlocks(3)

\* the number of times path occurs in visited
Visits(path) == Cardinality({k \in DOMAIN visited : visited[k] = path})

\* C3: Sequence.produce returns the concatenation of the results of all its
\* children in list order; an empty child contributes no fragment; every
\* child is evaluated exactly once.
C3_SequenceConcatenates ==
    (pc = "produced" /\ producer.kind = "Sequence") =>
        LET n == Len(producer.producers)
            \* the offset of child i's fragments in the result
            Offset(i) == TotalLen([j \in 1..(i - 1) |-> ChildBlocks(j)])
        IN  /\ Len(blocks) = Offset(n + 1)
            /\ \A i \in 1..n : \A k \in 1..Len(ChildBlocks(i)) :
                   blocks[Offset(i) + k] = ChildBlocks(i)[k]
            /\ \A i \in 1..n : Visits(<<i>>) = 1

\* a Sequence with an empty child between two non-empty ones
C3_Witness ==
    /\ pc = "produced"
    /\ producer.kind = "Sequence"
    /\ Len(producer.producers) = 3
    /\ ChildBlocks(1) # <<>>
    /\ ChildBlocks(2) = <<>>
    /\ ChildBlocks(3) # <<>>
    /\ blocks = ChildBlocks(1) \o ChildBlocks(3)

\* the blocks of the child of the root Styled producer
StyledChildBlocks == produce(producer.producer, environment, <<1>>).blocks

\* C4: Styled.produce returns its child's fragments with the same texts,
\* count and order; per fragment and per channel the fragment's own colour
\* is kept when present, else the default style's colour is taken; a colour
\* the fragment has is never replaced.
C4_StyledCoalesces ==
    (pc = "produced" /\ producer.kind = "Styled") =>
        /\ Len(blocks) = Len(StyledChildBlocks)
        /\ \A k \in 1..Len(blocks) :
              LET own == StyledChildBlocks[k]
              IN  /\ blocks[k].text = own.text
                  /\ blocks[k].style.foreground =
                        (IF own.style.foreground # None THEN own.style.foreground
                         ELSE producer.style.foreground)
                  /\ blocks[k].style.background =
                        (IF own.style.background # None THEN own.style.background
                         ELSE producer.style.background)

\* a fragment with a foreground of its own and no background, under a
\* default with both: it keeps its foreground and takes the background
C4_Witness ==
    /\ pc = "produced"
    /\ producer.kind = "Styled"
    /\ producer.style = [foreground |-> "teal", background |-> "black"]
    /\ \E k \in 1..Len(blocks) :
          /\ StyledChildBlocks[k].style = Style_fg("crimson")
          /\ blocks[k].style = [foreground |-> "crimson", background |-> "black"]

\* no leaf of the producer tree p yields a fragment against env
RECURSIVE NoLeafYields(_, _)
NoLeafYields(p, env) ==
    CASE p.kind \in {"Or", "Sequence", "Separated"} ->
            \A i \in 1..Len(p.producers) : NoLeafYields(p.producers[i], env)
      [] p.kind = "Styled" -> NoLeafYields(p.producer, env)
      [] OTHER -> produce(p, env, <<>>).blocks = <<>>

\* C14: for every producer tree built from Sequence, Or, Separated and
\* Styled, nested to any depth and with empty child lists, in which no leaf
\* yields a fragment, produce returns the empty sequence: no separator is
\* emitted and Styled adds no fragment.
C14_EmptyTreeProducesNothing ==
    (pc = "produced" /\ NoLeafYields(producer, environment)) => blocks = <<>>

\* a Separated of several children, one of them a combinator, none of
\* which yields a fragment
C14_Witness ==
    /\ pc = "produced"
    /\ producer.kind = "Separated"
    /\ Len(producer.producers) >= 2
    /\ \E i \in 1..Len(producer.producers) :
          producer.producers[i].kind \in {"Or", "Sequence", "Separated", "Styled"}
    /\ \E i \in 1..Len(producer.producers) : producer.producers[i].kind = "ExitCode"
    /\ NoLeafYields(producer, environment)
    /\ blocks = <<>>

(***************************************************************************)
(* Properties of the styles (checked under SpecStyled).                    *)
(***************************************************************************)
\* the style has a foreground and a background
FullySet(style) == style.foreground # None /\ style.background # None

\* the style of the text under the two Styled producers
TextStyle == producer.producer.producer.style

\* C15: the Styled overlay leaves unchanged every fragment whose style has
\* both a foreground and a background: s.or(d) = s for every default d, and
\* applying defaults again (a Styled in a Styled) never changes it.
C15_StyledKeepsFullStyle ==
    (pc = "produced" /\ FullySet(TextStyle)) =>
        /\ \A d \in Style : Style_or(TextStyle, d) = TextStyle
        /\ Style_or(Style_or(TextStyle, producer.producer.style), producer.style)
              = TextStyle
        /\ blocks = <<[text |-> "a", style |-> TextStyle]>>

\* a text with both colours under two defaults that have both colours too,
\* all different from the text's
C15_Witness ==
    /\ pc = "produced"
    /\ TextStyle = [foreground |-> "crimson", background |-> "dodgerblue"]
    /\ producer.producer.style = [foreground |-> "teal", background |-> "black"]
    /\ producer.style = [foreground |-> "black", background |-> "teal"]
    /\ blocks = <<[text |-> "a", style |-> TextStyle]>>

(***************************************************************************)
(* Properties of a run (checked under Spec and FairSpec).                  *)
(***************************************************************************)
\* print_prompt returned the error e
Returned(e) == result = Some(Err(e))

\* print_prompt returned an error
GenerationFailed == result # Absent /\ ~result[1].ok

\* C5: if the worker's evaluation has not completed when the deadline
\* elapses (also when it never completes), print_prompt returns
\* PromptGenerationTimedOut without joining or waiting for the worker, and
\* the calling thread is never blocked for ever: the wait ends, in a
\* completion signal or in the timeout, and after the timeout the main
\* thread runs to its end whatever the worker does.
C5_TimedOutNeverBlocks ==
    /\ [][(main_pc = "recv_timeout" /\ main_pc' # "recv_timeout" /\ ~sender_dropped)
            => Returned(AppError_PromptGenerationTimedOut)']_vars
    /\ [](Returned(AppError_PromptGenerationTimedOut) => ~joined)
    /\ (main_pc = "recv_timeout") ~>
          (sender_dropped \/ Returned(AppError_PromptGenerationTimedOut))
    /\ Returned(AppError_PromptGenerationTimedOut) ~> (main_pc = "exited")

\* the process ended after a timeout while the worker was still in
\* make_prompt, which it never left
C5_Witness ==
    /\ main_pc = "exited"
    /\ Returned(AppError_PromptGenerationTimedOut)
    /\ worker_pc = "make_prompt"
    /\ ~joined

\* the worker thread panicked
WorkerPanicked == worker_value # Absent /\ ~worker_value[1].ok

\* C6: if the worker panics and its completion is observed before the
\* deadline, print_prompt returns PromptGenerationPanicked, which is not
\* the timeout error, and the calling thread goes on normally: it reports
\* that error and exits with status 1.
C6_PanicIsCrashed ==
    (joined /\ WorkerPanicked) =>
        /\ Returned(AppError_PromptGenerationPanicked)
        /\ ~Returned(AppError_PromptGenerationTimedOut)
        /\ main_pc \in {"print_or_fallback", "main", "exited"}
        /\ main_pc = "exited" =>
              /\ exit_status = Some(1)
              /\ stderr = <<"Error: Prompt generation panicked">>

\* the worker panicked, the main thread joined it and the process ended
C6_Witness ==
    /\ main_pc = "exited"
    /\ joined
    /\ WorkerPanicked
    /\ Returned(AppError_PromptGenerationPanicked)

\* the worker's make_prompt returned Ok(blocks)
WorkerSucceeded ==
    worker_value # Absent /\ worker_value[1].ok /\ worker_value[1].value.ok

Occurs(small, big) ==
    \E i \in 0..(Len(big) - Len(small)) :
        \A k \in 1..Len(small) : big[i + k] = small[k]

\* C8: whenever generation fails outside test mode, the fallback prompt is
\* shown: once the process has ended, the blocks of the fallback prompt are
\* in what it wrote to the standard output.
C8_FallbackIsShown ==
    (main_pc = "exited" /\ GenerationFailed /\ ~args.test) =>
        /\ fallback # Absent
        /\ fallback[1].result.ok =>
              /\ stdout # <<>>
              /\ Occurs(fallback[1].result.value, stdout)

\* the previous exit code of the generation: make_prompt line 410
GenerationExitCode ==
    LET c == print_prompt_setup(args).value
    IN  IF c.exit_code # Absent THEN c.exit_code[1] ELSE c.state.prev_exit_code

\* C9: when generation fails, the fallback producer is evaluated against
\* the same context as the failed generation: same previous exit code, and
\* same working directory.
C9_FallbackUsesSameContext ==
    (fallback # Absent /\ fallback[1].environment # Absent
        /\ print_prompt_setup(args).ok) =>
        /\ fallback[1].environment[1].prev_exit_code = GenerationExitCode
        /\ args.pwd # None => fallback[1].environment[1].working_dir = args.pwd

\* every line of the list lines is a line of the standard error
Reported(lines) == \A i \in 1..Len(lines) : \E j \in 1..Len(stderr) : stderr[j] = lines[i]

\* C10, as claimed: if generation fails and the fallback fails as well, the
\* fallback's failure is reported with its cause chain and the process
\* exits with a non-zero status.
C10_FallbackFailureReported ==
    (main_pc = "exited" /\ fallback # Absent /\ ~fallback[1].result.ok) =>
        /\ Reported(print_error(fallback[1].result.error))
        /\ exit_status # Some(0)

\* C10, amended: if generation fails and the fallback fails as well, the
\* fallback's failure is discarded; the generation failure is what is
\* reported, with its cause chain, and the process exits with status 1.
C10_GenerationFailureReported ==
    (main_pc = "exited" /\ fallback # Absent /\ ~fallback[1].result.ok) =>
        /\ GenerationFailed
        /\ stderr = print_error(result[1].error)
        /\ exit_status = Some(1)

\* generation timed out, the fallback failed for want of a current
\* directory, and the timeout is what was reported
C10_Witness ==
    /\ main_pc = "exited"
    /\ Returned(AppError_PromptGenerationTimedOut)
    /\ fallback # Absent
    /\ fallback[1].result = Err(AppError_Prompt(Error_GettingPwdFailed))
    /\ stderr = <<"Error: Prompt generation timed out">>
    /\ exit_status = Some(1)

(***************************************************************************)
(* Properties of the leaf producers (checked under SpecLeaf).              *)
(***************************************************************************)
\* the decimal forms of the exit codes, as the prompt is expected to show them
ExpectedDecimal ==
    [code \in LeafExitCodes \ {0} |->
        CASE code = 1 -> "1" [] code = 127 -> "127" [] code = 255 -> "255"
          [] code = -1 -> "-1" [] code = -128 -> "-128"]

\* C17: ExitCode.produce yields the empty sequence if and only if the
\* previous exit code is exactly 0; for every other code, negative ones
\* included, it yields exactly two fragments: the prefix, then the code in
\* decimal, both with the producer's style.
C17_ExitCodeShowsNonZero ==
    (pc = "produced" /\ producer.kind = "ExitCode") =>
        /\ blocks = <<>> <=> environment.prev_exit_code = 0
        /\ environment.prev_exit_code # 0 =>
              blocks = << [text |-> producer.prefix, style |-> producer.style],
                          [text |-> ExpectedDecimal[environment.prev_exit_code],
                           style |-> producer.style] >>

\* a negative exit code shown with its sign
C17_Witness ==
    /\ pc = "produced"
    /\ producer.kind = "ExitCode"
    /\ environment.prev_exit_code = -128
    /\ Len(blocks) = 2
    /\ blocks[2].text = "-128"

\* the duration a is shorter than the duration b
Shorter(a, b) == a.secs < b.secs \/ (a.secs = b.secs /\ a.nanos < b.nanos)

\* the durations of the previous command cut to whole milliseconds, in
\* human-readable form
ExpectedHuman(d) ==
    CASE d = Duration_from_millis(500) -> "500ms"
      [] d = Duration_new(1, 999999999) -> "1s 999ms"
      [] d = Duration_from_secs(2) -> "2s"
      [] d = Duration_new(2, 1) -> "2s"
      [] d = Duration_from_secs(5) -> "5s"
      [] d = Duration_new(5, 900000) -> "5s"
      [] d = Duration_from_millis(61500) -> "1m 1s 500ms"
      [] d = Duration_from_secs(3661) -> "1h 1m 1s"
      [] d = Duration_new(90061, 1000000) -> "1day 1h 1m 1s 1ms"

C19_ElapsedOnlyAboveThreshold ==
    (pc = "produced" /\ producer.kind = "Elapsed"
        /\ environment.prev_cmd_duration # Absent) =>
        (blocks # <<>> <=> Shorter(producer.threshold, environment.prev_cmd_duration[1]))

\* C20: ExitStatusSymbol.produce yields one fragment with the contents, in
\* the normal style when the previous exit code is 0 and in the error style
\* when it is not; with empty contents it yields the empty sequence,
\* whatever the exit code.
C20_ExitStatusSymbolStyle ==
    (pc = "produced" /\ producer.kind = "ExitStatusSymbol") =>
        IF producer.contents = "" THEN blocks = <<>>
        ELSE blocks = << [text |-> producer.contents,
                          style |-> IF environment.prev_exit_code = 0
                                    THEN producer.style
                                    ELSE producer.error_style] >>

\* a failed command: the symbol in the error style, which is not the normal one
C20_Witness ==
    /\ pc = "produced"
    /\ producer.kind = "ExitStatusSymbol"
    /\ environment.prev_exit_code = 127
    /\ producer.style # producer.error_style
    /\ blocks = <<[text |-> ">", style |-> producer.error_style]>>

\* the blocks the fallback prompt painted, if any
FallbackBlocks ==
    IF fallback # Absent /\ fallback[1].result.ok THEN fallback[1].result.value
    ELSE <<>>

\* C16: after print_prompt has returned PromptGenerationTimedOut the worker
\* is abandoned: a step of the worker (its completion or its panic) changes
\* neither the error returned nor anything the main thread holds or wrote;
\* the error stays the timeout, and nothing but the fallback prompt is ever
\* painted or written.
C16_AbandonedWorkerChangesNothing ==
    /\ [][(Returned(AppError_PromptGenerationTimedOut)
              /\ (worker_pc' # worker_pc \/ worker_value' # worker_value))
            => UNCHANGED <<result, run_result, buffer, fallback, stdout, stderr,
                           exit_status, main_pc, joined>>]_vars
    /\ [][Returned(AppError_PromptGenerationTimedOut)
            => Returned(AppError_PromptGenerationTimedOut)']_vars
    /\ [](Returned(AppError_PromptGenerationTimedOut) =>
            /\ buffer \in {<<>>, FallbackBlocks}
            /\ stdout \in {<<>>, <<Block_new("\n")>> \o FallbackBlocks})

\* the worker completed with a prompt of its own after the timeout, and the
\* process ended with the timeout as its error and none of those blocks
C16_Witness ==
    /\ main_pc = "exited"
    /\ Returned(AppError_PromptGenerationTimedOut)
    /\ worker_pc = "finished"
    /\ WorkerSucceeded
    /\ worker_value[1].value.value # <<>>
    /\ buffer # worker_value[1].value.value
    /\ ~joined

(***************************************************************************)
(* Properties of the evaluations that read the repository (SpecGit).       *)
(***************************************************************************)
\* the producer at a path of the tree p
RECURSIVE NodeAt(_, _)
NodeAt(p, path) ==
    IF path = <<>> THEN p
    ELSE IF p.kind = "Styled" THEN NodeAt(p.producer, Tail(path))
    ELSE NodeAt(p.producers[Head(path)], Tail(path))

\* Environment::repo was called during the evaluation: the produce of a
\* producer that reads the repository ran (git_head.rs line 43)
RepoQueried ==
    \E k \in DOMAIN visited :
        NodeAt(producer, visited[k]).kind \in {"GitHead", "GitPath"}

\* C13: Or short-circuits: once a child has returned a non-empty result, no
\* later child of that Or is evaluated at all, nor anything under it, so
\* the queries of the later children (the discovery of the repository at
\* first touch) do not happen.
C13_OrShortCircuits ==
    (pc = "produced" /\ producer.kind = "Or" /\ NonEmptyChildren # {}) =>
        LET first == CHOOSE i \in NonEmptyChildren : \A j \in NonEmptyChildren : i <= j
        IN  /\ \A k \in DOMAIN visited :
                  visited[k] = <<>> \/ visited[k][1] <= first
            /\ \A j \in 1..first : Visits(<<j>>) = 1
            /\ (\A j \in 1..first :
                    \A k \in DOMAIN visited :
                        (visited[k] # <<>> /\ visited[k][1] = j)
                            => NodeAt(producer, visited[k]).kind # "GitHead")
                => ~RepoQueried

\* Or([Text, GitHead]) in a repository: the text is the result, GitHead,
\* which would have yielded the branch, did not run and nothing was discovered
C13_Witness ==
    /\ pc = "produced"
    /\ producer.kind = "Or"
    /\ Len(producer.producers) = 2
    /\ producer.producers[1].kind = "Text"
    /\ producer.producers[2].kind = "GitHead"
    /\ ChildBlocks(2) # <<>>
    /\ blocks = ChildBlocks(1)
    /\ Visits(<<2>>) = 0
    /\ ~RepoQueried

(***************************************************************************)
(* Properties of a run that reads the repository (checked under Spec).     *)
(***************************************************************************)
\* the run evaluates the configuration with GitHead in the directory --pwd
\* names, and the main thread joined the worker
GitRunJoined ==
    /\ joined
    /\ print_prompt_setup(args).ok
    /\ args.config = "git.json"
    /\ args.pwd # None

\* C12: when the discovery of the repository says "not a repository", the
\* producers that depend on it yield nothing and generation succeeds;
\* when it fails with any other error, the error reaches print_prompt and
\* generation fails: it is not turned into an empty result.
C12_DiscoveryErrorFailsGeneration ==
    GitRunJoined =>
        LET discovered == Repository_discover(Disk(args.pwd))
        IN  /\ (~discovered.ok /\ discovered.error.code = "NotFound" /\ WorkerSucceeded)
                  => (result = Some(Ok("()")) /\ buffer = <<Block_new("$")>>)
            /\ (~discovered.ok /\ discovered.error.code # "NotFound")
                  => GenerationFailed

(***************************************************************************)
(* Properties of the calls of Environment::repo (checked under SpecRepo).  *)
(***************************************************************************)
\* C11: for one Environment, the discovery of the repository runs at most
\* once over any interleaving of calls of repo, two threads racing on the
\* first access included; every call returns the same memoized result,
\* the one of the first access, whatever the disk holds later.
C11_RepoDiscoveredOnce ==
    /\ discoveries <= 1
    /\ (repo_cell # Absent) <=> (discoveries = 1)
    /\ \A t \in Callers : \A i \in 1..Len(returned[t]) :
          /\ repo_cell # Absent
          /\ returned[t][i] = repo_cell[1]
    /\ \A t \in Callers, u \in Callers :
          \A i \in 1..Len(returned[t]), j \in 1..Len(returned[u]) :
              returned[t][i] = returned[u][j]

\* both threads called repo, one of them more than once; one discovery was
\* made, and all got its result though the disk now holds something else
C11_Witness ==
    /\ discoveries = 1
    /\ Len(returned["main"]) >= 1
    /\ Len(returned["worker"]) >= 2
    /\ repo_cell = Some(Absent)
    /\ disk.found = "Repository"
    /\ \A i \in 1..Len(returned["worker"]) : returned["worker"][i] = Absent

(***************************************************************************)
(* WorkingDirectory.                                                       *)
(***************************************************************************)
\* the home directory is, component by component, a prefix of the working
\* directory
HomeIsPrefix ==
    /\ os.HOME # Absent
    /\ LET h == components(os.HOME[1])
           w == components(environment.working_dir)
       IN  Len(h) <= Len(w) /\ \A i \in 1..Len(h) : w[i] = h[i]

\* the components of the working directory after those of the home directory
BelowHome ==
    LET h == components(os.HOME[1])
        w == components(environment.working_dir)
    IN  [i \in 1..(Len(w) - Len(h)) |-> w[Len(h) + i]]

\* C21: WorkingDirectory yields two fragments, its prefix and the path; with
\* home_as_tilde and the home directory a component-wise prefix of the
\* working directory the path is "~", followed by the components below the
\* home directory if there are any; otherwise it is the working directory
\* unchanged.
C21_WorkingDirectoryTilde ==
    (pc = "produced" /\ producer.kind = "WorkingDirectory") =>
        /\ Len(blocks) = 2
        /\ blocks[1].text = producer.prefix
        /\ IF producer.home_as_tilde /\ HomeIsPrefix
           THEN /\ components(blocks[2].text) = <<"~">> \o BelowHome
                /\ BelowHome = <<>> => blocks[2].text = "~"
                /\ SubSeq(blocks[2].text, 1, 1) = "~"
           ELSE blocks[2].text = environment.working_dir

\* /home/u/proj with home /home/u has been shown as ~/proj
C21_Witness ==
    /\ pc = "produced"
    /\ producer.kind = "WorkingDirectory"
    /\ producer.home_as_tilde
    /\ environment.working_dir = "/home/u/proj"
    /\ os.HOME = Some("/home/u")
    /\ blocks[2].text = "~/proj"

(***************************************************************************)
(* GitPath.                                                                *)
(***************************************************************************)
\* the root of the repository found at the working directory: the directory
\* that holds the git directory
RepositoryRoot == parent(Disk(environment.working_dir).path)[1]

\* the working directory is the root of the repository or below it
UnderRepositoryRoot ==
    LET r == components(RepositoryRoot)
        w == components(environment.working_dir)
    IN  Len(r) <= Len(w) /\ \A i \in 1..Len(r) : w[i] = r[i]

\* the working directory is inside a repository that is not bare
InsideRepository ==
    /\ Disk(environment.working_dir).found = "Repository"
    /\ ~Disk(environment.working_dir).bare
    /\ UnderRepositoryRoot

\* the components of the working directory after those of the root of the
\* repository
BelowRepositoryRoot ==
    LET r == components(RepositoryRoot)
        w == components(environment.working_dir)
    IN  [i \in 1..(Len(w) - Len(r)) |-> w[Len(r) + i]]

\* C22: inside a repository that is not bare, GitPath yields its prefix and
\* the working directory relative to the root of the repository, the name of
\* the root and what is above it being stripped; it yields nothing without a
\* repository, in a bare one, or when the working directory is not under
\* the repository.
C22_GitPathRelativeToRoot ==
    (pc = "produced" /\ producer.kind = "GitPath") =>
        IF InsideRepository
        THEN /\ Len(blocks) = 2
             /\ blocks[1].text = producer.prefix
             /\ components(blocks[2].text) = BelowRepositoryRoot
        ELSE blocks = <<>>

(***************************************************************************)
(* Colours.                                                                *)
(***************************************************************************)
\* the text is '#' followed by six hexadecimal digits
IsHexColor(str) ==
    /\ Len(str) = 7
    /\ SubSeq(str, 1, 1) = "#"
    /\ \A i \in 2..7 : hex_value(SubSeq(str, i, i)) >= 0

\* the byte the two hexadecimal digits of str at positions i and i+1 write
HexByte(str, i) ==
    16 * hex_value(SubSeq(str, i, i)) + hex_value(SubSeq(str, i + 1, i + 1))

\* C23: Color parsing accepts exactly '#' followed by six hexadecimal digits
\* rrggbb, which gives the colour of these three bytes, and the names of the
\* palette; every other text is rejected with InvalidColor.
C23_ColorParseAcceptsHexOrName ==
    (color_pc = "parsed") =>
        IF IsHexColor(color_input)
        THEN /\ color_result.ok
             /\ color_result.value.inner =
                    RGB8(HexByte(color_input, 2), HexByte(color_input, 4),
                         HexByte(color_input, 6))
        ELSE IF palette_named_from_str(color_input) # Absent
        THEN /\ color_result.ok
             /\ color_result.value.inner = palette_named_from_str(color_input)[1]
        ELSE color_result = Err(InvalidColor(color_input))

\* the text is '#' and the three bytes of rgb, each as two lowercase
\* hexadecimal digits
IsLowerHexOf(str, rgb) ==
    /\ IsHexColor(str)
    /\ \A i \in 2..7 : SubSeq(str, i, i) \notin {"A", "B", "C", "D", "E", "F"}
    /\ HexByte(str, 2) = rgb.r
    /\ HexByte(str, 4) = rgb.g
    /\ HexByte(str, 6) = rgb.b

\* C24: a colour without a name is printed as '#' and two lowercase
\* hexadecimal digits for each of red, green and blue, a named colour as its
\* name; parsing what was printed succeeds and gives a colour with the same
\* RGB value.
C24_ColorRoundTrip ==
    /\ (color_pc \in {"printed", "reparsed"}) =>
          IF color_self.name = Absent
          THEN IsLowerHexOf(color_string[1], color_self.inner)
          ELSE color_string[1] = color_self.name[1]
    /\ (color_pc = "reparsed") =>
          /\ color_result.ok
          /\ color_result.value.inner = color_self.inner

\* C25 as claimed: two colours compare equal exactly when their red, green
\* and blue bytes are the same, with or without names, whatever the names.
C25_ColorEqIsRgbOnly ==
    (color_pc = "compared") =>
        (color_eq[1] <=> (color_self.inner = color_other.inner))

\* the text of the name of a colour, "" standing for no name (no colour is
\* named "": it is not a name of the palette)
NameText(c) == IF c.name = Absent THEN "" ELSE c.name[1]

\* C25, amended: two colours compare equal exactly when they have the same
\* red, green and blue bytes and the same name, or both no name; a named
\* colour is not equal to the colour of the same bytes without a name or
\* with another name.
C25_ColorEqComparesName ==
    (color_pc = "compared") =>
        /\ color_eq[1] <=> (/\ color_self.inner.r = color_other.inner.r
                            /\ color_self.inner.g = color_other.inner.g
                            /\ color_self.inner.b = color_other.inner.b
                            /\ NameText(color_self) = NameText(color_other))
        /\ (color_self.inner = color_other.inner
            /\ NameText(color_self) # NameText(color_other)) => ~color_eq[1]

\* cyan was compared with aqua, the same bytes under another name, and with
\* the colour of these bytes without a name: not equal
C25_Witness ==
    /\ color_pc = "compared"
    /\ color_self = CYAN
    /\ color_other \in {Color_try_from("aqua").value, Color_new(0, 255, 255)}
    /\ color_eq = Some(FALSE)

(***************************************************************************)
(* The outcomes of print_prompt once the worker is spawned.                *)
(***************************************************************************)
\* the worker's make_prompt returned an error
WorkerFailed ==
    worker_value # Absent /\ worker_value[1].ok /\ ~worker_value[1].value.ok

\* the outcomes: the prompt was shown; the error of the evaluation; the
\* worker panicked; the timeout elapsed
OutcomeSuccess == result = Some(Ok("()"))

OutcomeEvaluationError == WorkerFailed /\ result = Some(worker_value[1].value)

OutcomeCrashed == Returned(AppError_PromptGenerationPanicked)

OutcomeTimedOut == Returned(AppError_PromptGenerationTimedOut)

\* how many of the four outcomes hold
Outcomes ==
    Cardinality({o \in {"success", "error", "crashed", "timed out"} :
        \/ o = "success" /\ OutcomeSuccess
        \/ o = "error" /\ OutcomeEvaluationError
        \/ o = "crashed" /\ OutcomeCrashed
        \/ o = "timed out" /\ OutcomeTimedOut})

\* C26: once the worker is spawned, print_prompt returns once, with exactly
\* one outcome among success, the error of the evaluation, Panicked and
\* TimedOut; TimedOut is returned only while the sender is not dropped; the
\* sender is dropped only after make_prompt returned or panicked; the join
\* follows a dropped sender and gives the worker's own result.
C26_ExactlyOneOutcome ==
    /\ []((worker_pc # "idle" /\ result # Absent) => Outcomes = 1)
    /\ [][(result # Absent) => (result' = result)]_vars
    /\ [][(result = Absent /\ OutcomeTimedOut') => (~sender_dropped /\ ~joined')]_vars
    /\ [](sender_dropped => worker_value # Absent)
    /\ []((main_pc = "join" \/ joined) => (sender_dropped /\ worker_value # Absent))
    /\ [](joined =>
            /\ WorkerSucceeded => OutcomeSuccess
            /\ WorkerFailed => OutcomeEvaluationError
            /\ WorkerPanicked => OutcomeCrashed)

\* the worker's make_prompt returned an error, the main thread saw the
\* sender dropped, joined the worker and returned that error
C26_Witness ==
    /\ joined
    /\ sender_dropped
    /\ WorkerFailed
    /\ OutcomeEvaluationError
    /\ ~OutcomeCrashed
    /\ ~OutcomeTimedOut

(***************************************************************************)
(* The stored duration of the previous command.                            *)
(***************************************************************************)
\* the CmdDuration of the State a text of the shell variable encodes
DurationOf(state_str) == read_state(state_str).value.prev_cmd_duration

\* the call of process_store printed a state
Stored(call) == call.found # Absent /\ call.result.ok

\* end - start when the clock is past start, else nothing
Measured(start, now) ==
    IF Duration_ge(now, start) THEN Duration_sub(now, start) ELSE Duration_from_secs(0)

\* what a call of process_store is to do to the duration
C27_StoreCallOk(call) ==
    LET after == DurationOf(call.result.value)
        found == call.found[1]
    IN  /\ (after.tag = "Elapsed" /\ after # found) =>
              /\ call.flag = "stop-timer"
              /\ found.tag = "StartedAt"
              /\ after.d = Measured(found.d, call.now)
              /\ after.d.secs >= 0
        /\ (call.flag = "stop-timer" /\ found.tag = "StartedAt") => after.tag = "Elapsed"
        /\ (call.flag = "stop-timer" /\ found.tag \in {"Unknown", "Elapsed"}) =>
              after.tag = "Unknown"

\* the fragments of the duration in the prompt: the first two of the blocks
\* when Elapsed yields, which the text "$" follows
ShownDuration(made) ==
    IF Len(made.value) = 3 THEN Some(made.value[2].text) ELSE Absent

\* C27: the stored duration becomes Elapsed(d) only by a stop-timer that
\* finds StartedAt(start), with d = max(start, now) - start, never negative;
\* a stop-timer that finds Unknown or Elapsed stores Unknown, so that a
\* prompt of the hook shows a duration only when its own stop-timer measured
\* it; only Elapsed reaches the Environment: with StartedAt or Unknown the
\* prompt has no duration.
C27_ElapsedOnlyByStopTimer ==
    /\ (store_call # Absent /\ Stored(store_call[1])) => C27_StoreCallOk(store_call[1])
    /\ (ELIPROMPT_STATE # "") =>
          /\ store_call # Absent
          /\ ELIPROMPT_STATE = captured(store_call[1].result)
    /\ (PROMPT # Absent /\ PROMPT[1].result.ok) =>
          /\ ShownDuration(PROMPT[1].result) =
                (IF DurationOf(PROMPT[1].state).tag = "Elapsed"
                 THEN Some(format_duration(DurationOf(PROMPT[1].state).d))
                 ELSE Absent)
          /\ (PROMPT[1].hook # Absent /\ ShownDuration(PROMPT[1].result) # Absent) =>
                PROMPT[1].hook[1].found = Some(CmdDuration_StartedAt(
                    Duration_sub(PROMPT[1].hook[1].now, DurationOf(PROMPT[1].state).d)))
                \/ (/\ DurationOf(PROMPT[1].state).d = Duration_from_secs(0)
                    /\ PROMPT[1].hook[1].found[1].tag = "StartedAt")

\* a command took one second between the two hooks and the prompt showed it;
\* the hook then ran again with no command in between and stored Unknown
C27_Witness ==
    /\ PROMPT # Absent
    /\ PROMPT[1].hook # Absent
    /\ PROMPT[1].result.ok
    /\ ShownDuration(PROMPT[1].result) = Some("1s")
    /\ store_call # Absent
    /\ store_call[1].flag = "stop-timer"
    /\ store_call[1].found = Some(CmdDuration_Elapsed(Duration_from_secs(1)))
    /\ DurationOf(ELIPROMPT_STATE) = CmdDuration_Unknown

(***************************************************************************)
(* The fallback prompt.                                                    *)
(***************************************************************************)
\* the texts of the blocks, in order
Texts == [i \in 1..Len(blocks) |-> blocks[i].text]

\* C28: in every environment the fallback prompt yields blocks without a
\* call of Environment::repo: ">" and " " after an exit code of 0, and the
\* prefix of ExitCode, the code, ">" and " " after another one; ">" has the
\* error style exactly when the code is not 0.
C28_FallbackPromptNeverEmpty ==
    (pc = "produced" /\ producer = fallback_prompt) =>
        /\ blocks # <<>>
        /\ ~RepoQueried
        /\ IF environment.prev_exit_code = 0
           THEN /\ Texts = <<">", " ">>
                /\ blocks[1].style = Style_fg("dodgerblue")
           ELSE /\ Texts = <<ExitCode_default_prefix,
                           ExpectedDecimal[environment.prev_exit_code], ">", " ">>
                /\ blocks[3].style = Style_fg("crimson")
                /\ blocks[3].style # Style_fg("dodgerblue")

\* the fallback prompt after exit code 127, in a directory of a repository
C28_Witness ==
    /\ pc = "produced"
    /\ producer = fallback_prompt
    /\ environment.working_dir = "/repo/src"
    /\ environment.prev_exit_code = 127
    /\ Len(blocks) = 4
    /\ blocks[2].text = "127"

(***************************************************************************)
(* Nested Styled producers (checked under SpecNested).                     *)
(***************************************************************************)
\* the blocks of the producer under the two Styled producers, on its own
InnermostBlocks == produce(producer.producer.producer, environment, <<>>).blocks

\* the first colour that is present among three
FirstOf(own, inner, outer) ==
    IF own # None THEN own ELSE IF inner # None THEN inner ELSE outer

\* C29: Styled(Styled(P, s1), s2) yields the blocks of Styled(P, s1.or(s2)):
\* in each channel the colour of a block is its own, else the one of s1,
\* else the one of s2; and a Styled whose style is empty yields the blocks
\* of its child unchanged.
C29_NestedStyledInnermostFirst ==
    (pc = "produced" /\ producer.kind = "Styled" /\ producer.producer.kind = "Styled") =>
        LET s1 == producer.producer.style
            s2 == producer.style
        IN  /\ blocks = produce(Styled(producer.producer.producer, Style_or(s1, s2)),
                                environment, <<>>).blocks
            /\ Len(blocks) = Len(InnermostBlocks)
            /\ \A k \in 1..Len(blocks) :
                  /\ blocks[k].text = InnermostBlocks[k].text
                  /\ blocks[k].style.foreground =
                        FirstOf(InnermostBlocks[k].style.foreground,
                                s1.foreground, s2.foreground)
                  /\ blocks[k].style.background =
                        FirstOf(InnermostBlocks[k].style.background,
                                s1.background, s2.background)
            /\ (s2 = Style_default) =>
                  blocks = produce(producer.producer, environment, <<>>).blocks
            /\ (s1 = Style_default /\ s2 = Style_default) => blocks = InnermostBlocks

\* a block with no colour of its own has the foreground of the inner Styled
\* and the background of the outer one, which also has a foreground
C29_Witness ==
    /\ pc = "produced"
    /\ producer.kind = "Styled"
    /\ producer.producer.kind = "Styled"
    /\ producer.producer.style = Style_fg("teal")
    /\ producer.style = [foreground |-> "crimson", background |-> "black"]
    /\ Len(blocks) = 4
    /\ InnermostBlocks[1].style = Style_default
    /\ blocks[1].style = [foreground |-> "teal", background |-> "black"]

(***************************************************************************)
(* Or and Separated over blocks with no text (checked under SpecCounted).  *)
(***************************************************************************)
\* the children of the root that yield at least one block, in child order
YieldingChildren ==
    SelectSeq([i \in 1..Len(producer.producers) |-> i],
              LAMBDA i : Len(ChildBlocks(i)) >= 1)

\* some block of the list has a text that is not empty
HasText(bs) == \E k \in 1..Len(bs) : bs[k].text # ""

\* C30: Or and Separated count the blocks of a child, not their text: Text
\* yields one block even with no contents, Username and Hostname two even
\* with their empty default prefix; the first child of Or that yields a
\* block gives the result, whatever the texts; and Separated puts its
\* separator between all the children that yield a block.
C30_NonEmptyCountsFragments ==
    (pc = "produced" /\ producer.kind \in {"Or", "Separated"}) =>
        /\ \A i \in 1..Len(producer.producers) :
              LET child == producer.producers[i]
              IN  /\ child.kind = "Text" =>
                        (Len(ChildBlocks(i)) = 1 /\ ChildBlocks(i)[1].text = child.contents)
                  /\ child.kind \in {"Username", "Hostname"} =>
                        (Len(ChildBlocks(i)) = 2 /\ ChildBlocks(i)[1].text = child.prefix)
        /\ producer.kind = "Or" =>
              blocks = (IF YieldingChildren = <<>> THEN <<>>
                        ELSE ChildBlocks(YieldingChildren[1]))
        /\ producer.kind = "Separated" =>
              LET sep == [text |-> producer.separator, style |-> producer.separator_style]
                  yielded == [n \in 1..Len(YieldingChildren) |->
                                  ChildBlocks(YieldingChildren[n])]
              IN  /\ blocks = Interleave(yielded, sep)
                  /\ Len(blocks) = TotalLen(yielded)
                        + (IF yielded = <<>> THEN 0 ELSE Len(yielded) - 1)

\* a text with no contents came before a text with contents in an Or, and
\* its one block, whose text is empty, is the result
C30_Witness ==
    /\ pc = "produced"
    /\ producer.kind = "Or"
    /\ Len(producer.producers) >= 2
    /\ producer.producers[1].kind = "Text"
    /\ producer.producers[1].contents = ""
    /\ HasText(ChildBlocks(2))
    /\ Len(blocks) = 1
    /\ ~HasText(blocks)

====
